---------------------------- MODULE Spec2Model ----------------------------
(***************************************************************************)
(* A model of the SCOT-94.DAT recovery toolkit: the slot table scanner,    *)
(* the unaligned Pascal scanner, the token segmenter and the caller (main) *)
(* of src/src/app/scot94_extract_with_attrs_and_solver.py, with the two    *)
(* split_concatenated_names variants of extract_all_names.py and           *)
(* extract_names.py.                                                       *)
(*                                                                         *)
(* Bytes are integers 0..255.  Text is a sequence of Unicode code points,  *)
(* obtained from bytes by the cp437 code page.  Python's 0-based offsets   *)
(* are kept: byte k of a buffer d is d[k + 1].                             *)
(***************************************************************************)
EXTENDS Integers, Sequences, FiniteSets, TLC

VARIABLES
    data,    \* the RawBuffer: the bytes of the input file
    scan,    \* find_slot16_tables: [pc, i, off, slots, tables]
    pscan,   \* extract_pascal_strings: [pc, i, out, last]
    text,    \* the input string of the token segmenter
    seg,     \* the segmenter's results: [pc, mixed, all, names]
    run,     \* main: [pc, status, tables, tokens, rowsA, pas, teamsB, blocksB, rowsB]
    pair,    \* extract_all_names.py, infer_pairs and the de-duplication of main
    solver   \* the numeric table solvers

vars == <<data, scan, pscan, text, seg, run, pair, solver>>

-----------------------------------------------------------------------------
(* Program constants *)

SlotSize == 16
MaxSlotLen == 15
MinRun == 8
MinLen == 3
MaxLen == 24
TEAM_COUNT == 64
TEAM_TABLE_OFFSET == 6
PLAYER_BLOB_START == 16300
PLAYER_BLOB_END == 42299
DATASET_A_START_TEAM_INDEX == 7
DATASET_A_SQUAD_SIZE == 21
DATASET_A_TOKEN_OFFSET == -2
TEAMLIST_B_SCAN_MIN == 1200
TEAMLIST_B_SCAN_MAX == 3000
DATASET_B_SQUAD_SIZE == 16
DATASET_B_TOKEN_OFFSET == 10

-----------------------------------------------------------------------------
(* Bounds of the model *)

MaxRecs == 10      \* longest run of valid slot records in a generated buffer
MaxPrefix == 2     \* junk bytes in front of a generated slot table
MaxFree == 2       \* freely chosen bytes just in front of offset 1500
MaxBuf == 6        \* longest of the short Pascal scanner buffers
MaxText == 4       \* longest of the short segmenter inputs
MaxNames == 2      \* freely chosen strings of a generated packed team list
MaxBlocks == 3     \* whole 16-token windows in a generated player blob
MaxToks == 4       \* longest generated token stream of the pairing heuristic
MaxSolveBuf == 6   \* longest of the short solver buffers

-----------------------------------------------------------------------------
(* Sequences, Python style *)

Min2(a, b) == IF a < b THEN a ELSE b
Max2(a, b) == IF a > b THEN a ELSE b

\* d[a:b] for 0 <= a: the bytes at offsets a .. b-1, clipped to the buffer.
Slice(d, a, b) == SubSeq(d, a + 1, Min2(b, Len(d)))

Repeat(x, n) == [k \in 1..n |-> x]

RECURSIVE Flatten(_)
Flatten(ss) == IF ss = <<>> THEN <<>> ELSE Head(ss) \o Flatten(Tail(ss))

-----------------------------------------------------------------------------
(* cp437 and Python's character classes on its image *)

\* The code points of bytes 128..255 under cp437.
Cp437High ==
  << 199, 252, 233, 226, 228, 224, 229, 231, 234, 235, 232, 239, 238, 236, 196, 197,
     201, 230, 198, 244, 246, 242, 251, 249, 255, 214, 220, 162, 163, 165, 8359, 402,
     225, 237, 243, 250, 241, 209, 170, 186, 191, 8976, 172, 189, 188, 161, 171, 187,
     9617, 9618, 9619, 9474, 9508, 9569, 9570, 9558, 9557, 9571, 9553, 9559, 9565, 9564, 9563, 9488,
     9492, 9524, 9516, 9500, 9472, 9532, 9566, 9567, 9562, 9556, 9577, 9574, 9568, 9552, 9580, 9575,
     9576, 9572, 9573, 9561, 9560, 9554, 9555, 9579, 9578, 9496, 9484, 9608, 9604, 9612, 9616, 9600,
     945, 223, 915, 960, 931, 963, 181, 964, 934, 920, 937, 948, 8734, 966, 949, 8745,
     8801, 177, 8805, 8804, 8992, 8993, 247, 8776, 176, 8729, 183, 8730, 8319, 178, 9632, 160 >>

\* bytes.decode("cp437", errors="ignore"): every byte has a character, none is dropped.
Cp437(b) == IF b < 128 THEN b ELSE Cp437High[b - 127]
Decode(bs) == [k \in 1..Len(bs) |-> Cp437(bs[k])]

AsciiUpper == 65..90
AsciiLower == 97..122

\* str.isupper / str.islower / str.isalpha / str.isspace of one character.
UpperCps == AsciiUpper \cup {196, 197, 198, 199, 201, 209, 214, 220, 915, 920, 931, 934, 937}
LowerCps == AsciiLower \cup
  {170, 181, 186, 223, 224, 225, 226, 228, 229, 230, 231, 232, 233, 234, 235, 236,
   237, 238, 239, 241, 242, 243, 244, 246, 249, 250, 251, 252, 255, 402, 945, 948,
   949, 960, 963, 964, 966, 8319}
IsUpper(c) == c \in UpperCps
IsLower(c) == c \in LowerCps
IsAlpha(c) == c \in UpperCps \cup LowerCps
IsSpace(c) == c \in {9, 10, 11, 12, 13, 28, 29, 30, 31, 32, 160}

\* any(ch.isalpha() for ch in s)
HasAlpha(s) == \E k \in 1..Len(s) : IsAlpha(s[k])

\* str.strip(): leading and trailing whitespace removed.
Strip(s) ==
  LET keep == {k \in 1..Len(s) : ~IsSpace(s[k])}
  IN  IF keep = {} THEN <<>>
      ELSE SubSeq(s, CHOOSE k \in keep : \A m \in keep : k <= m,
                     CHOOSE k \in keep : \A m \in keep : k >= m)

Letters == AsciiUpper \cup AsciiLower

\* ALLOWED_CHARS: A-Z a-z space apostrophe hyphen period.
ALLOWED_CHARS == AsciiUpper \cup AsciiLower \cup {32, 39, 45, 46}

-----------------------------------------------------------------------------
(* Slot Table Scanner *)

None == <<>>
Some(x) == <<x>>

\* read_slot16 taking a length byte of 16 as well.
read_slot16_len16(d, o) ==
  IF o + SlotSize > Len(d) THEN None
  ELSE LET blk == Slice(d, o, o + SlotSize)
           L == blk[1]
       IN  IF ~(1 <= L /\ L <= SlotSize) THEN None
           ELSE LET raw == Slice(blk, 1, 1 + L)
                    s == Strip(Decode(raw))
                IN  IF s = <<>> \/ ~HasAlpha(s) THEN None
                    ELSE IF \E k \in 1..Len(s) : s[k] \notin ALLOWED_CHARS THEN None
                    ELSE Some(s)

\* read_slot16 removing the whitespace at the end of the text only.
read_slot16_rstrip(d, o) ==
  IF o + SlotSize > Len(d) THEN None
  ELSE LET blk == Slice(d, o, o + SlotSize)
           L == blk[1]
       IN  IF ~(1 <= L /\ L <= MaxSlotLen) THEN None
           ELSE LET raw == Decode(Slice(blk, 1, 1 + L))
                    keep == {k \in 1..Len(raw) : ~IsSpace(raw[k])}
                    s == IF keep = {} THEN <<>>
                         ELSE SubSeq(raw, 1, CHOOSE k \in keep : \A m \in keep : k >= m)
                IN  IF s = <<>> \/ ~HasAlpha(s) THEN None
                    ELSE IF \E k \in 1..Len(s) : s[k] \notin ALLOWED_CHARS THEN None
                    ELSE Some(s)

\* read_slot16(data, off): None, or Some(text).
read_slot16(d, o) ==
  IF o + SlotSize > Len(d) THEN None
  ELSE LET blk == Slice(d, o, o + SlotSize)
           L == blk[1]
       IN  IF ~(1 <= L /\ L <= MaxSlotLen) THEN None
           ELSE LET raw == Slice(blk, 1, 1 + L)
                    s == Strip(Decode(raw))
                IN  IF s = <<>> \/ ~HasAlpha(s) THEN None
                    ELSE IF \E k \in 1..Len(s) : s[k] \notin ALLOWED_CHARS THEN None
                    ELSE Some(s)

ScanStart == [pc |-> "while", i |-> 0, off |-> 0, slots |-> <<>>, tables |-> <<>>]

\* while i < len(data) - 16: slots = []; off = i
find_while(d, st) ==
  IF st.i < Len(d) - SlotSize
  THEN [st EXCEPT !.pc = "read", !.slots = <<>>, !.off = st.i]
  ELSE [st EXCEPT !.pc = "done"]

\* one round of the inner loop: read a slot, extend the run or break
find_read(d, st) ==
  LET s == read_slot16(d, st.off)
  IN  IF s = None THEN [st EXCEPT !.pc = "close"]
      ELSE [st EXCEPT !.slots = Append(st.slots, <<st.off, s[1]>>),
                      !.off = st.off + SlotSize]

\* find_close accepting a run one slot short.
find_close_short(d, st) ==
  IF Len(st.slots) >= MinRun - 1
  THEN [st EXCEPT !.pc = "while", !.tables = Append(st.tables, st.slots), !.i = st.off]
  ELSE [st EXCEPT !.pc = "while", !.i = st.i + 1]

\* find_close resuming one byte on after an accepted run as well.
find_close_noskip(d, st) ==
  IF Len(st.slots) >= MinRun
  THEN [st EXCEPT !.pc = "while", !.tables = Append(st.tables, st.slots), !.i = st.i + 1]
  ELSE [st EXCEPT !.pc = "while", !.i = st.i + 1]

\* find_close resuming one slot on, inside the run it has just accepted.
find_close_oneslot(d, st) ==
  IF Len(st.slots) >= MinRun
  THEN [st EXCEPT !.pc = "while", !.tables = Append(st.tables, st.slots),
                  !.i = st.i + SlotSize]
  ELSE [st EXCEPT !.pc = "while", !.i = st.i + 1]

\* find_close leaving the cursor where it was after a discarded run.
find_close_stall(d, st) ==
  IF Len(st.slots) >= MinRun
  THEN [st EXCEPT !.pc = "while", !.tables = Append(st.tables, st.slots), !.i = st.off]
  ELSE [st EXCEPT !.pc = "while"]

\* find_close resuming a whole slot on after a discarded run.
find_close_stride(d, st) ==
  IF Len(st.slots) >= MinRun
  THEN [st EXCEPT !.pc = "while", !.tables = Append(st.tables, st.slots), !.i = st.off]
  ELSE [st EXCEPT !.pc = "while", !.i = st.i + SlotSize]

\* if len(slots) >= 8: accept the run and resume after it, else resume at i + 1
find_close(d, st) ==
  IF Len(st.slots) >= MinRun
  THEN [st EXCEPT !.pc = "while", !.tables = Append(st.tables, st.slots), !.i = st.off]
  ELSE [st EXCEPT !.pc = "while", !.i = st.i + 1]

find_step(d, st) ==
  CASE st.pc = "while" -> find_while(d, st)
    [] st.pc = "read"  -> find_read(d, st)
    [] st.pc = "close" -> find_close(d, st)
    [] OTHER           -> st

\* n steps of the scanner, or fewer when it returns earlier.
RECURSIVE find_run(_, _, _)
find_run(d, st, n) ==
  IF n = 0 \/ st.pc = "done" THEN st
  ELSE IF n = 1 THEN find_step(d, st)
  ELSE find_run(d, find_run(d, st, n \div 2), n - (n \div 2))

\* find_slot16_tables(data): the scanner run to its return.
find_slot16_tables(d) ==
  find_run(d, ScanStart, (Len(d) + 2) * ((Len(d) \div SlotSize) + 4)).tables

-----------------------------------------------------------------------------
(* Generated buffers for the slot scanner *)

Rec(bs) == bs \o Repeat(0, SlotSize - Len(bs))

\* [length][text][padding] records that read_slot16 decodes.
ValidRecs ==
  << Rec(<<3, 65, 98, 99>>),                                            \* "Abc"
     <<15, 65, 98, 99, 100, 101, 102, 103, 104, 105, 106, 107, 108, 109, 110, 111>>,
     Rec(<<5, 32, 65, 46, 98, 32>>),                                    \* " A.b "
     Rec(<<4, 9, 79, 39, 45>>),                                         \* tab "O'-"
     Rec(<<1, 90, 1, 66, 255, 200>>) >>                                 \* "Z", dirty padding

\* 16-byte records that read_slot16 rejects.
InvalidRecs ==
  << Repeat(0, SlotSize),                                               \* length 0
     <<16>> \o Repeat(65, SlotSize - 1),                                \* length 16
     Rec(<<3, 49, 97, 50>>),                                            \* "1a2"
     Rec(<<3, 46, 46, 46>>),                                            \* "..."
     Rec(<<2, 32, 32>>),                                                \* blank
     Rec(<<3, 65, 130, 98>>) >>                                         \* "A", e-acute, "b"

RunOf(n, r) == Flatten([j \in 1..n |-> ValidRecs[((j + r) % Len(ValidRecs)) + 1]])

SlotBuffers ==
  \* k valid records, then one invalid record
  { RunOf(k, 0) \o InvalidRecs[v] : k \in 0..MaxRecs, v \in 1..Len(InvalidRecs) }
  \* junk, a table, and what follows it
  \cup { Repeat(b, p) \o RunOf(MinRun, p) \o t :
           b \in {0, 65}, p \in 1..MaxPrefix, t \in {<<>>, <<0>>, InvalidRecs[3]} }
  \* a short run, then a table; two tables
  \cup { RunOf(k, 1) \o InvalidRecs[1] \o RunOf(MinRun, 2) \o t :
           k \in {3, MinRun}, t \in {<<>>, InvalidRecs[4]} }
  \* buffers with no table
  \cup { <<>>, <<3>>, Repeat(0, SlotSize - 1), ValidRecs[1], RunOf(MinRun - 1, 0) }
  \* a table that ends with the buffer
  \cup { RunOf(k, 3) : k \in MinRun..MaxRecs }

-----------------------------------------------------------------------------
(* The slot scanner, step by step *)

Idle == [pc |-> "idle"]

InitSlot ==
  /\ data \in SlotBuffers
  /\ scan = ScanStart
  /\ pscan = Idle
  /\ text = <<>>
  /\ seg = Idle
  /\ run = Idle
  /\ pair = Idle
  /\ solver = Idle

FindWhile ==
  /\ scan.pc = "while"
  /\ scan' = find_while(data, scan)
  /\ UNCHANGED <<data, pscan, text, seg, run, pair, solver>>

FindRead ==
  /\ scan.pc = "read"
  /\ scan' = find_read(data, scan)
  /\ UNCHANGED <<data, pscan, text, seg, run, pair, solver>>

FindClose ==
  /\ scan.pc = "close"
  /\ scan' = find_close(data, scan)
  /\ UNCHANGED <<data, pscan, text, seg, run, pair, solver>>

NextSlot == FindWhile \/ FindRead \/ FindClose

SpecSlot == InitSlot /\ [][NextSlot]_vars

-----------------------------------------------------------------------------
(* Unaligned Pascal Scanner *)

\* is_printable_name_bytes(b): A-Z a-z space apostrophe hyphen dot only.
is_printable_name_bytes(b) ==
  \A k \in 1..Len(b) :
    \/ (65 <= b[k] /\ b[k] <= 90)
    \/ (97 <= b[k] /\ b[k] <= 122)
    \/ b[k] \in {32, 39, 45, 46}

PascalStart(lo, hi) == [pc |-> "scan", i |-> 0, out |-> <<>>, min_len |-> lo, max_len |-> hi]

\* pascal_body with the jump past 1 + L taken whatever the bytes are.
pascal_body_skipall(d, st) ==
  LET L == d[st.i + 1]
  IN  IF st.min_len <= L /\ L <= st.max_len /\ st.i + 1 + L <= Len(d)
      THEN LET sbytes == Slice(d, st.i + 1, st.i + 1 + L)
               s == Strip(Decode(sbytes))
           IN  [st EXCEPT !.out = IF is_printable_name_bytes(sbytes) /\ HasAlpha(s)
                                  THEN Append(st.out, <<st.i, s>>) ELSE st.out,
                          !.i = st.i + 1 + L]
      ELSE [st EXCEPT !.i = st.i + 1]

\* pascal_body advancing by one byte after an emitted token as well.
pascal_body_noskip(d, st) ==
  LET L == d[st.i + 1]
  IN  IF st.min_len <= L /\ L <= st.max_len /\ st.i + 1 + L <= Len(d)
      THEN LET sbytes == Slice(d, st.i + 1, st.i + 1 + L)
           IN  IF is_printable_name_bytes(sbytes)
               THEN LET s == Strip(Decode(sbytes))
                    IN  [st EXCEPT !.out = IF HasAlpha(s) THEN Append(st.out, <<st.i, s>>)
                                           ELSE st.out,
                                   !.i = st.i + 1]
               ELSE [st EXCEPT !.i = st.i + 1]
      ELSE [st EXCEPT !.i = st.i + 1]

\* pascal_body jumping one byte past the end of a consumed string.
pascal_body_overjump(d, st) ==
  LET L == d[st.i + 1]
  IN  IF st.min_len <= L /\ L <= st.max_len /\ st.i + 1 + L <= Len(d)
      THEN LET sbytes == Slice(d, st.i + 1, st.i + 1 + L)
           IN  IF is_printable_name_bytes(sbytes)
               THEN LET s == Strip(Decode(sbytes))
                    IN  [st EXCEPT !.out = IF HasAlpha(s) THEN Append(st.out, <<st.i, s>>)
                                           ELSE st.out,
                                   !.i = st.i + 2 + L]
               ELSE [st EXCEPT !.i = st.i + 1]
      ELSE [st EXCEPT !.i = st.i + 1]

\* pascal_body jumping past the string only when it emits a token.
pascal_body_alphajump(d, st) ==
  LET L == d[st.i + 1]
  IN  IF st.min_len <= L /\ L <= st.max_len /\ st.i + 1 + L <= Len(d)
      THEN LET sbytes == Slice(d, st.i + 1, st.i + 1 + L)
               s == Strip(Decode(sbytes))
           IN  IF is_printable_name_bytes(sbytes) /\ HasAlpha(s)
               THEN [st EXCEPT !.out = Append(st.out, <<st.i, s>>), !.i = st.i + 1 + L]
               ELSE [st EXCEPT !.i = st.i + 1]
      ELSE [st EXCEPT !.i = st.i + 1]

\* One round of the loop of extract_pascal_strings, at cursor st.i.
pascal_body(d, st) ==
  LET L == d[st.i + 1]
  IN  IF st.min_len <= L /\ L <= st.max_len /\ st.i + 1 + L <= Len(d)
      THEN LET sbytes == Slice(d, st.i + 1, st.i + 1 + L)
           IN  IF is_printable_name_bytes(sbytes)
               THEN LET s == Strip(Decode(sbytes))
                    IN  [st EXCEPT !.out = IF HasAlpha(s) THEN Append(st.out, <<st.i, s>>)
                                           ELSE st.out,
                                   !.i = st.i + 1 + L]
               ELSE [st EXCEPT !.i = st.i + 1]
      ELSE [st EXCEPT !.i = st.i + 1]

\* while i < len(data) - 2
pascal_more(d, st) == st.i < Len(d) - 2

pascal_step(d, st) ==
  IF st.pc # "scan" THEN st
  ELSE IF pascal_more(d, st) THEN pascal_body(d, st)
  ELSE [st EXCEPT !.pc = "done"]

RECURSIVE pascal_run(_, _, _)
pascal_run(d, st, n) ==
  IF n = 0 \/ st.pc = "done" THEN st
  ELSE IF n = 1 THEN pascal_step(d, st)
  ELSE pascal_run(d, pascal_run(d, st, n \div 2), n - (n \div 2))

\* extract_pascal_strings(data, min_len, max_len): the scanner run to its return.
extract_pascal_strings(d, lo, hi) == pascal_run(d, PascalStart(lo, hi), Len(d) + 1).out

-----------------------------------------------------------------------------
(* Generated buffers for the Pascal scanner *)

Aberdeen == <<65, 98, 101, 114, 100, 101, 101, 110>>

\* What fills the buffer in front of the scenario's string.
Fillers ==
  << <<0>>,                     \* zero bytes
     <<65>>,                    \* letters, none a length byte
     <<3, 97, 46, 32>>,         \* packed 3-byte strings
     <<4, 3, 98, 99, 100>> >>   \* a string whose text holds a length byte

Fill(f, n) == [k \in 1..n |-> f[((k - 1) % Len(f)) + 1]]

\* The bytes just in front of offset 1500.
FreeBytes == {0, 3, 24, 65}

RECURSIVE SeqsOf(_, _)
SeqsOf(S, n) == IF n = 0 THEN {<<>>} ELSE {Append(q, x) : q \in SeqsOf(S, n - 1), x \in S}

AberdeenBuffers ==
  { Fill(Fillers[f], 1500 - MaxFree) \o fr \o <<8>> \o Aberdeen \o t :
      f \in 1..Len(Fillers), fr \in SeqsOf(FreeBytes, MaxFree),
      t \in {<<>>, <<88, 89, 90>>} }

\* Short buffers over a few bytes: a length byte, a letter, a dot, junk.
SmallBytes == {0, 3, 65, 46}
SmallBuffers == UNION {SeqsOf(SmallBytes, n) : n \in 0..MaxBuf}

\* Buffers in which a text byte (a space, 32) would itself be a length byte
\* when max_len is 40.
LongLenBuffers ==
  { pre \o <<5, 65, 98, 32, 99, 100>> \o Repeat(101, n) \o <<3, 120, 121, 122>> :
      pre \in {<<>>, <<0>>}, n \in {29, 30, 31} }

InitPascal ==
  /\ \E c \in (SmallBuffers \X {<<MinLen, MaxLen>>})
             \cup (AberdeenBuffers \X {<<MinLen, MaxLen>>})
             \cup (LongLenBuffers \X {<<MinLen, MaxLen>>, <<MinLen, 40>>}) :
       /\ data = c[1]
       /\ pscan = PascalStart(c[2][1], c[2][2])
  /\ scan = Idle
  /\ text = <<>>
  /\ seg = Idle
  /\ run = Idle
  /\ pair = Idle
  /\ solver = Idle

PascalStep ==
  /\ pscan.pc = "scan"
  /\ pascal_more(data, pscan)
  /\ pscan' = pascal_body(data, pscan)
  /\ UNCHANGED <<data, scan, text, seg, run, pair, solver>>

PascalReturn ==
  /\ pscan.pc = "scan"
  /\ ~pascal_more(data, pscan)
  /\ pscan' = [pscan EXCEPT !.pc = "done"]
  /\ UNCHANGED <<data, scan, text, seg, run, pair, solver>>

NextPascal == PascalStep \/ PascalReturn

SpecPascal == InitPascal /\ [][NextPascal]_vars

-----------------------------------------------------------------------------
(* Token Segmenter *)

Mc == <<77, 99>>
Mac == <<77, 97, 99>>

Last(q) == q[Len(q)]

\* cur.endswith(suffix)
EndsWith(q, suffix) ==
  Len(q) >= Len(suffix) /\ SubSeq(q, Len(q) - Len(suffix) + 1, Len(q)) = suffix

\* flush(): the current token, when there is one, joins the tokens.
flush(st) ==
  IF st.cur # <<>> THEN [st EXCEPT !.tokens = Append(st.tokens, st.cur), !.cur = <<>>] ELSE st

\* tok_char passing over a space without flushing.
tok_char_spacekept(s, st) ==
  LET ch == s[st.k + 1]
      nx == [st EXCEPT !.k = st.k + 1]
  IN  IF ch = 32 THEN nx
      ELSE IF ~(IsAlpha(ch) \/ ch \in {39, 45}) THEN flush(nx)
      ELSE IF st.cur # <<>> /\ IsUpper(ch) /\ IsLower(Last(st.cur))
           THEN [flush(nx) EXCEPT !.cur = <<ch>>]
           ELSE [nx EXCEPT !.cur = Append(st.cur, ch)]

\* tok_char keeping every character but the space in the token.
tok_char_keepall(s, st) ==
  LET ch == s[st.k + 1]
      nx == [st EXCEPT !.k = st.k + 1]
  IN  IF ch = 32 THEN flush(nx)
      ELSE IF st.cur # <<>> /\ IsUpper(ch) /\ IsLower(Last(st.cur))
           THEN [flush(nx) EXCEPT !.cur = <<ch>>]
           ELSE [nx EXCEPT !.cur = Append(st.cur, ch)]

\* tokenize_mixed, the body of "for ch in s", at the character st.k (from 0).
tok_char(s, st) ==
  LET ch == s[st.k + 1]
      nx == [st EXCEPT !.k = st.k + 1]
  IN  IF ch = 32 THEN flush(nx)
      ELSE IF ~(IsAlpha(ch) \/ ch \in {39, 45}) THEN flush(nx)
      ELSE IF st.cur # <<>> /\ IsUpper(ch) /\ IsLower(Last(st.cur))
           THEN [flush(nx) EXCEPT !.cur = <<ch>>]
           ELSE [nx EXCEPT !.cur = Append(st.cur, ch)]

\* n rounds of the loop over the characters, or fewer when s ends earlier.
RECURSIVE tok_chars(_, _, _)
tok_chars(s, st, n) ==
  IF n = 0 \/ ~(st.k < Len(s)) THEN st
  ELSE IF n = 1 THEN tok_char(s, st)
  ELSE tok_chars(s, tok_chars(s, st, n \div 2), n - (n \div 2))

\* merge_step keeping the token after the prefix and losing the prefix.
merge_step_lose(ts, prefix, st) ==
  IF ts[st.i + 1] = prefix /\ st.i + 1 < Len(ts)
  THEN [i |-> st.i + 2, merged |-> Append(st.merged, ts[st.i + 2])]
  ELSE [i |-> st.i + 1, merged |-> Append(st.merged, ts[st.i + 1])]

\* merge_step that joins but does not consume the token after the prefix.
merge_step_noconsume(ts, prefix, st) ==
  IF ts[st.i + 1] = prefix /\ st.i + 1 < Len(ts)
  THEN [i |-> st.i + 1, merged |-> Append(st.merged, prefix \o ts[st.i + 2])]
  ELSE [i |-> st.i + 1, merged |-> Append(st.merged, ts[st.i + 1])]

\* One round of a merge loop of tokenize_mixed: "Mc" (or "Mac") with a token
\* after it is joined to that token.
merge_step(ts, prefix, st) ==
  IF ts[st.i + 1] = prefix /\ st.i + 1 < Len(ts)
  THEN [i |-> st.i + 2, merged |-> Append(st.merged, prefix \o ts[st.i + 2])]
  ELSE [i |-> st.i + 1, merged |-> Append(st.merged, ts[st.i + 1])]

RECURSIVE merge_run(_, _, _, _)
merge_run(ts, prefix, st, n) ==
  IF n = 0 \/ ~(st.i < Len(ts)) THEN st
  ELSE IF n = 1 THEN merge_step(ts, prefix, st)
  ELSE merge_run(ts, prefix, merge_run(ts, prefix, st, n \div 2), n - (n \div 2))

merge_pass(ts, prefix) == merge_run(ts, prefix, [i |-> 0, merged |-> <<>>], Len(ts)).merged

\* tokenize_mixed(s)
tokenize_mixed(s) ==
  LET tokens == flush(tok_chars(s, [k |-> 0, tokens |-> <<>>, cur |-> <<>>], Len(s))).tokens
      merged == merge_pass(tokens, Mc)
  IN  merge_pass(merged, Mac)

\* split_concatenated_names, the body of "for i in range(1, len(blob))", at
\* i = st.k; keep: the least length of cur at which a Mac/Mc ending stops the
\* split (extract_all_names.py: none, 0; extract_names.py: len(cur) >= 3).
split_char(blob, st, keep) ==
  LET ch == blob[st.k + 1]
      prev == blob[st.k]
      nx == [st EXCEPT !.k = st.k + 1]
  IN  IF IsUpper(ch) /\ IsLower(prev)
      THEN IF (EndsWith(st.cur, Mac) \/ EndsWith(st.cur, Mc)) /\ Len(st.cur) >= keep
           THEN [nx EXCEPT !.cur = Append(st.cur, ch)]
           ELSE [nx EXCEPT !.parts = Append(st.parts, st.cur), !.cur = <<ch>>]
      ELSE [nx EXCEPT !.cur = Append(st.cur, ch)]

RECURSIVE split_chars(_, _, _, _)
split_chars(blob, st, keep, n) ==
  IF n = 0 \/ ~(st.k < Len(blob)) THEN st
  ELSE IF n = 1 THEN split_char(blob, st, keep)
  ELSE split_chars(blob, split_chars(blob, st, keep, n \div 2), keep, n - (n \div 2))

\* One round of the merge loop of split_concatenated_names: "Mc" is joined to
\* the part after it when that part starts with an uppercase letter.
split_merge_step(ps, st) ==
  IF /\ ps[st.i + 1] = Mc
     /\ st.i + 1 < Len(ps)
     /\ ps[st.i + 2] # <<>> /\ IsUpper(ps[st.i + 2][1])
  THEN [i |-> st.i + 2, merged |-> Append(st.merged, Mc \o ps[st.i + 2])]
  ELSE [i |-> st.i + 1, merged |-> Append(st.merged, ps[st.i + 1])]

RECURSIVE split_merge_run(_, _, _)
split_merge_run(ps, st, n) ==
  IF n = 0 \/ ~(st.i < Len(ps)) THEN st
  ELSE IF n = 1 THEN split_merge_step(ps, st)
  ELSE split_merge_run(ps, split_merge_run(ps, st, n \div 2), n - (n \div 2))

split_names(blob, keep) ==
  IF blob = <<>> THEN <<>>
  ELSE LET st == split_chars(blob, [k |-> 1, parts |-> <<>>, cur |-> <<blob[1]>>], keep, Len(blob))
           parts == Append(st.parts, st.cur)
       IN  split_merge_run(parts, [i |-> 0, merged |-> <<>>], Len(parts)).merged

\* extract_all_names.py, split_concatenated_names(blob)
split_concatenated_names_all(blob) == split_names(blob, 0)

\* extract_names.py, split_concatenated_names(blob)
split_concatenated_names(blob) == split_names(blob, 3)

-----------------------------------------------------------------------------
(* Inputs of the segmenter *)

\* M N a c, space, apostrophe, period
TokChars == {77, 78, 97, 99, 32, 39, 46}

AndersonEtc ==
  << 65, 110, 100, 101, 114, 115, 111, 110, 68, 105, 97, 109, 111, 110, 100, 77, 99, 78,
     97, 117, 103, 104, 116, 111, 110, 77, 97, 99, 80, 104, 101, 114, 115, 111, 110 >>
Anderson == <<65, 110, 100, 101, 114, 115, 111, 110>>
Diamond == <<68, 105, 97, 109, 111, 110, 100>>
McNaughton == <<77, 99, 78, 97, 117, 103, 104, 116, 111, 110>>
MacPherson == <<77, 97, 99, 80, 104, 101, 114, 115, 111, 110>>

Scenarios ==
  { AndersonEtc, McNaughton, <<110>> \o McNaughton, MacPherson,
    Mac \o <<32>> \o <<78, 97>>,          \* "Mac Na"
    Mac \o Mc \o <<78>>,                  \* "MacMcN"
    Mc \o Mc \o <<78>>,                   \* "McMcN"
    Repeat(97, 25),                       \* 25 lowercase letters
    <<79, 39, 78, 101, 105, 108>>,        \* "O'Neil"
    <<233, 78, 45, 97>> }                 \* e-acute "N-a"

TokTexts == UNION {SeqsOf(TokChars, n) : n \in 0..MaxText} \cup Scenarios

InitTok ==
  /\ text \in TokTexts
  /\ seg = [mixed |-> None, all |-> None, names |-> None]
  /\ data = <<>>
  /\ scan = Idle
  /\ pscan = Idle
  /\ run = Idle
  /\ pair = Idle
  /\ solver = Idle

\* scot94_extract*.py: tokenize_mixed(text)
TokenizeMixed ==
  /\ seg.mixed = None
  /\ seg' = [seg EXCEPT !.mixed = Some(tokenize_mixed(text))]
  /\ UNCHANGED <<data, scan, pscan, text, run, pair, solver>>

\* extract_all_names.py: split_concatenated_names(text)
SplitAll ==
  /\ seg.all = None
  /\ seg' = [seg EXCEPT !.all = Some(split_concatenated_names_all(text))]
  /\ UNCHANGED <<data, scan, pscan, text, run, pair, solver>>

\* extract_names.py: split_concatenated_names(text)
SplitNames ==
  /\ seg.names = None
  /\ seg' = [seg EXCEPT !.names = Some(split_concatenated_names(text))]
  /\ UNCHANGED <<data, scan, pscan, text, run, pair, solver>>

NextTok == TokenizeMixed \/ SplitAll \/ SplitNames

SpecTok == InitTok /\ [][NextTok]_vars

-----------------------------------------------------------------------------
(* main: the caller of the scanners and the segmenter *)

\* NAME_TOKEN_RE.fullmatch(t): ^[A-Za-z][A-Za-z'\-]{1,23}$
NAME_TOKEN_RE(t) ==
  /\ 2 <= Len(t) /\ Len(t) <= 24
  /\ t[1] \in Letters
  /\ \A k \in 2..Len(t) : t[k] \in Letters \cup {39, 45}

\* str.lower() and str.upper(), on the ASCII text the Pascal scanner emits.
Lower(s) == [k \in 1..Len(s) |-> IF s[k] \in AsciiUpper THEN s[k] + 32 ELSE s[k]]
Upper(s) == [k \in 1..Len(s) |-> IF s[k] \in AsciiLower THEN s[k] - 32 ELSE s[k]]

\* k in s, for strings
Contains(s, k) == \E a \in 1..(Len(s) - Len(k) + 1) : SubSeq(s, a, a + Len(k) - 1) = k

LEAGUE == <<76, 69, 65, 71, 85, 69>>
DIVISION == <<68, 73, 86, 73, 83, 73, 79, 78>>

MainStart ==
  [pc |-> "start", status |-> None, tables |-> None, teamsA |-> None, tokens |-> None,
   rowsA |-> None, pas |-> None, teamsB |-> None, blocksB |-> None, rowsB |-> None]

\* main_scan going on without a table.
main_scan_nogate(d, r) ==
  LET tables == find_slot16_tables(d)
      a == IF tables = <<>> THEN <<>> ELSE tables[1]
  IN  [r EXCEPT !.pc = "tokenise", !.tables = Some(tables),
                !.teamsA = Some([k \in 1..TEAM_COUNT |->
                                   IF k <= Len(a) THEN a[k][2] ELSE <<>>])]

\* tables = find_slot16_tables(data); without a table main returns 2; else
\* teamsA is the first TEAM_COUNT names of the first table, padded with "".
main_scan(d, r) ==
  LET tables == find_slot16_tables(d)
  IN  IF tables = <<>>
      THEN [r EXCEPT !.pc = "returned", !.status = Some(2), !.tables = Some(tables)]
      ELSE LET a == tables[1]
           IN  [r EXCEPT !.pc = "tokenise", !.tables = Some(tables),
                         !.teamsA = Some([k \in 1..TEAM_COUNT |->
                                            IF k <= Len(a) THEN a[k][2] ELSE <<>>])]

\* tokens = tokenize_mixed(data[PLAYER_BLOB_START:PLAYER_BLOB_END].decode("cp437"))
main_tokenise(d, r) ==
  [r EXCEPT !.pc = "squadsA",
            !.tokens = Some(tokenize_mixed(Decode(Slice(d, PLAYER_BLOB_START, PLAYER_BLOB_END))))]

\* squadA testing the start, not the end, of the window against the tokens.
squadA_startonly(tokens, team_index) ==
  LET t == team_index - DATASET_A_START_TEAM_INDEX
      start == DATASET_A_TOKEN_OFFSET + t * DATASET_A_SQUAD_SIZE
      end == start + DATASET_A_SQUAD_SIZE
  IN  IF start < 0 \/ start > Len(tokens) THEN None
      ELSE Some(Slice(tokens, start, end))

\* squadA(team_index): None, or Some(the 21 tokens of the team).
squadA(tokens, team_index) ==
  LET t == team_index - DATASET_A_START_TEAM_INDEX
      start == DATASET_A_TOKEN_OFFSET + t * DATASET_A_SQUAD_SIZE
      end == start + DATASET_A_SQUAD_SIZE
  IN  IF start < 0 \/ end > Len(tokens) THEN None
      ELSE Some(SubSeq(tokens, start + 1, end))

\* rowsA: one row for every team index >= 7 that has a squad.
main_squadsA(d, r) ==
  LET tokens == r.tokens[1]
      HasRow(idx) == idx - 1 >= DATASET_A_START_TEAM_INDEX
                       /\ squadA(tokens, idx - 1) # None
                       /\ squadA(tokens, idx - 1) # Some(<<>>)
      rows == [idx \in 1..TEAM_COUNT |->
                 IF HasRow(idx)
                 THEN Some([team_index |-> idx - 1, team_name |-> r.teamsA[1][idx],
                            p |-> squadA(tokens, idx - 1)[1]])
                 ELSE None]
      Kept(x) == x # None
      kept == SelectSeq(rows, Kept)
  IN  [r EXCEPT !.pc = "teamsB", !.rowsA = Some([k \in 1..Len(kept) |-> kept[k][1]])]

\* teamsB_step with the text itself, not its lower case, as the key.
teamsB_step_casekey(cand, st) ==
  LET off == cand[st.k + 1][1]
      s == cand[st.k + 1][2]
      key == s
      nx == [st EXCEPT !.k = st.k + 1]
  IN  IF key \in st.seen THEN nx
      ELSE IF Len(s) < 4 THEN nx
      ELSE IF Contains(Upper(s), LEAGUE) \/ Contains(Upper(s), DIVISION) THEN nx
      ELSE [nx EXCEPT !.seen = st.seen \cup {key}, !.teamsB = Append(st.teamsB, <<off, s>>)]

\* One round of the loop that builds teamsB from cand.
teamsB_step(cand, st) ==
  LET off == cand[st.k + 1][1]
      s == cand[st.k + 1][2]
      key == Lower(s)
      nx == [st EXCEPT !.k = st.k + 1]
  IN  IF key \in st.seen THEN nx
      ELSE IF Len(s) < 4 THEN nx
      ELSE IF Contains(Upper(s), LEAGUE) \/ Contains(Upper(s), DIVISION) THEN nx
      ELSE [nx EXCEPT !.seen = st.seen \cup {key}, !.teamsB = Append(st.teamsB, <<off, s>>)]

RECURSIVE teamsB_run(_, _, _)
teamsB_run(cand, st, n) ==
  IF n = 0 \/ ~(st.k < Len(cand)) THEN st
  ELSE IF n = 1 THEN teamsB_step(cand, st)
  ELSE teamsB_run(cand, teamsB_run(cand, st, n \div 2), n - (n \div 2))

\* pas = extract_pascal_strings(data); cand: those in the scan window; teamsB.
main_teamsB(d, r) ==
  LET pas == extract_pascal_strings(d, MinLen, MaxLen)
      InWindow(t) == TEAMLIST_B_SCAN_MIN <= t[1] /\ t[1] <= TEAMLIST_B_SCAN_MAX
      cand == SelectSeq(pas, InWindow)
  IN  [r EXCEPT !.pc = "squadsB", !.pas = Some(pas),
                !.teamsB = Some(teamsB_run(cand, [k |-> 0, seen |-> {}, teamsB |-> <<>>],
                                           Len(cand)).teamsB)]

\* main_squadsB accepting a block only with more than 12 name-like tokens.
main_squadsB_strict(d, r) ==
  LET tokens == r.tokens[1]
      nblk == IF Len(tokens) < DATASET_B_TOKEN_OFFSET + DATASET_B_SQUAD_SIZE THEN 0
              ELSE (Len(tokens) - DATASET_B_TOKEN_OFFSET) \div DATASET_B_SQUAD_SIZE
      blk(b) == SubSeq(tokens, DATASET_B_TOKEN_OFFSET + (b - 1) * DATASET_B_SQUAD_SIZE + 1,
                               DATASET_B_TOKEN_OFFSET + b * DATASET_B_SQUAD_SIZE)
      Ok(bl) == Cardinality({j \in 1..Len(bl) : NAME_TOKEN_RE(bl[j])}) > 12
      blocksB == SelectSeq([b \in 1..nblk |-> blk(b)], Ok)
      teamsB == r.teamsB[1]
      rowsB == [i \in 1..Min2(Len(teamsB), Len(blocksB)) |->
                  [team_index |-> i - 1, team_name |-> teamsB[i][2], p |-> blocksB[i]]]
  IN  [r EXCEPT !.pc = "finish", !.blocksB = Some(blocksB), !.rowsB = Some(rowsB)]

\* blocksB: the 16-token blocks from token offset 10 that look like names;
\* rowsB: the i-th team of teamsB with the i-th block.
main_squadsB(d, r) ==
  LET tokens == r.tokens[1]
      nblk == IF Len(tokens) < DATASET_B_TOKEN_OFFSET + DATASET_B_SQUAD_SIZE THEN 0
              ELSE (Len(tokens) - DATASET_B_TOKEN_OFFSET) \div DATASET_B_SQUAD_SIZE
      blk(b) == SubSeq(tokens, DATASET_B_TOKEN_OFFSET + (b - 1) * DATASET_B_SQUAD_SIZE + 1,
                               DATASET_B_TOKEN_OFFSET + b * DATASET_B_SQUAD_SIZE)
      Ok(bl) == Cardinality({j \in 1..Len(bl) : NAME_TOKEN_RE(bl[j])}) >= 12
      blocksB == SelectSeq([b \in 1..nblk |-> blk(b)], Ok)
      teamsB == r.teamsB[1]
      rowsB == [i \in 1..Min2(Len(teamsB), Len(blocksB)) |->
                  [team_index |-> i - 1, team_name |-> teamsB[i][2], p |-> blocksB[i]]]
  IN  [r EXCEPT !.pc = "finish", !.blocksB = Some(blocksB), !.rowsB = Some(rowsB)]

\* return 0
main_return(d, r) == [r EXCEPT !.pc = "returned", !.status = Some(0)]

-----------------------------------------------------------------------------
(* Input files of main *)

\* [len][text] strings of the packed team list.
Packed(names) == Flatten([k \in 1..Len(names) |-> <<Len(names[k])>> \o names[k]])

NamePool ==
  << Aberdeen,
     <<65, 66, 69, 82, 68, 69, 69, 78>>,               \* "ABERDEEN"
     <<65, 121, 114>>,                                 \* "Ayr"
     <<65, 32, 76, 101, 97, 103, 117, 101>>,           \* "A League"
     <<100, 105, 118, 105, 115, 105, 111, 110>> >>     \* "division"

Airdrie == <<65, 105, 114, 100, 114, 105, 101>>
Falkirk == <<70, 97, 108, 107, 105, 114, 107>>
Forfar == <<70, 111, 114, 102, 97, 114, 32>>     \* "Forfar "

ZeroTo(d, n) == d \o Repeat(0, n - Len(d))

\* A file: lead bytes, a team table (or a run too short to be one), the packed
\* list laid out so that its second string starts at p2, and a last group whose
\* second string starts at q2.
MainFile(nrec, names, p2, q2) ==
  LET head == Repeat(0, TEAM_TABLE_OFFSET) \o RunOf(nrec, 0)
      g1 == ZeroTo(head, p2 - 8) \o Packed(<<Airdrie>> \o names)
      g2 == ZeroTo(g1, q2 - 8) \o Packed(<<Falkirk, Forfar, Airdrie>>)
  IN  g2

\* The j-th name (from 0) of a player blob: two letters, or one letter only.
GoodTok(j) == <<65 + (j \div 26), 97 + (j % 26)>>
BadTok(j) == <<65 + (j % 26)>>

\* Layout 2 spoils the first 4 tokens of the first 16-token window and the
\* first 5 of the second; layout 1 spoils none.
IsBad(j, layout) ==
  /\ layout = 2
  /\ j >= DATASET_B_TOKEN_OFFSET
  /\ LET k == (j - DATASET_B_TOKEN_OFFSET) \div DATASET_B_SQUAD_SIZE
         pos == (j - DATASET_B_TOKEN_OFFSET) % DATASET_B_SQUAD_SIZE
     IN  (k = 0 /\ pos < 4) \/ (k = 1 /\ pos < 5)

\* n names, each followed by a space.
BlobText(n, layout) ==
  Flatten([j \in 1..n |-> (IF IsBad(j - 1, layout) THEN BadTok(j - 1) ELSE GoodTok(j - 1))
                            \o <<32>>])

\* A file with a team table, a packed team list and a player blob of n names.
BlobFile(n, layout) ==
  ZeroTo(MainFile(MinRun, IF layout = 1 THEN <<NamePool[3]>> ELSE <<Aberdeen>>,
                  TEAMLIST_B_SCAN_MIN, TEAMLIST_B_SCAN_MAX), PLAYER_BLOB_START)
    \o BlobText(n, layout)

BlobFiles ==
  { BlobFile(DATASET_B_TOKEN_OFFSET + DATASET_B_SQUAD_SIZE * b + r, layout) :
      b \in 0..MaxBlocks, r \in {0, DATASET_B_SQUAD_SIZE - 1}, layout \in {1, 2} }

MainBuffers ==
  { MainFile(MinRun, names, w[1], w[2]) :
      names \in SeqsOf({NamePool[k] : k \in 1..Len(NamePool)}, MaxNames),
      w \in { <<TEAMLIST_B_SCAN_MIN, TEAMLIST_B_SCAN_MAX>>,
              <<TEAMLIST_B_SCAN_MIN + 1, TEAMLIST_B_SCAN_MAX + 1>> } }
  \* files with no team table
  \cup { MainFile(MinRun - 1, <<Aberdeen>>, TEAMLIST_B_SCAN_MIN, TEAMLIST_B_SCAN_MAX),
         <<>>, <<3>>, Repeat(0, SlotSize - 1), ValidRecs[1],
         RunOf(MinRun - 1, 0) \o InvalidRecs[1] }
  \* a file that is a team table and nothing else
  \cup { RunOf(MinRun, 0) }
  \* files with a player blob
  \cup BlobFiles

Init ==
  /\ data \in MainBuffers
  /\ run = MainStart
  /\ scan = Idle
  /\ pscan = Idle
  /\ text = <<>>
  /\ seg = Idle
  /\ pair = Idle
  /\ solver = Idle

MainScan ==
  /\ run.pc = "start"
  /\ run' = main_scan(data, run)
  /\ UNCHANGED <<data, scan, pscan, text, seg, pair, solver>>

MainTokenise ==
  /\ run.pc = "tokenise"
  /\ run' = main_tokenise(data, run)
  /\ UNCHANGED <<data, scan, pscan, text, seg, pair, solver>>

MainSquadsA ==
  /\ run.pc = "squadsA"
  /\ run' = main_squadsA(data, run)
  /\ UNCHANGED <<data, scan, pscan, text, seg, pair, solver>>

MainTeamsB ==
  /\ run.pc = "teamsB"
  /\ run' = main_teamsB(data, run)
  /\ UNCHANGED <<data, scan, pscan, text, seg, pair, solver>>

MainSquadsB ==
  /\ run.pc = "squadsB"
  /\ run' = main_squadsB(data, run)
  /\ UNCHANGED <<data, scan, pscan, text, seg, pair, solver>>

MainReturn ==
  /\ run.pc = "finish"
  /\ run' = main_return(data, run)
  /\ UNCHANGED <<data, scan, pscan, text, seg, pair, solver>>

Next == MainScan \/ MainTokenise \/ MainSquadsA \/ MainTeamsB \/ MainSquadsB \/ MainReturn

Spec == Init /\ [][Next]_vars

-----------------------------------------------------------------------------
(* Pairing Heuristic: extract_all_names.py *)

\* DEFAULT_FIRSTNAMES
DEFAULT_FIRSTNAMES ==
  {
    <<65, 100, 114, 105, 97, 110>>,                              \* Adrian
    <<65, 108, 97, 110>>,                                        \* Alan
    <<65, 108, 97, 115, 116, 97, 105, 114>>,                     \* Alastair
    <<65, 108, 98, 101, 114, 116, 111>>,                         \* Alberto
    <<65, 108, 101, 106, 97, 110, 100, 114, 111>>,               \* Alejandro
    <<65, 108, 101, 120>>,                                       \* Alex
    <<65, 110, 100, 114, 101, 97, 115>>,                         \* Andreas
    <<65, 110, 100, 114, 101, 119>>,                             \* Andrew
    <<65, 110, 116, 104, 111, 110, 121>>,                        \* Anthony
    <<65, 110, 116, 111, 110>>,                                  \* Anton
    <<65, 110, 116, 111, 110, 105, 111>>,                        \* Antonio
    <<66, 97, 114, 114, 121>>,                                   \* Barry
    <<66, 101, 110>>,                                            \* Ben
    <<66, 105, 108, 108, 121>>,                                  \* Billy
    <<66, 114, 105, 97, 110>>,                                   \* Brian
    <<67, 97, 108, 108, 117, 109>>,                              \* Callum
    <<67, 97, 114, 108>>,                                        \* Carl
    <<67, 97, 114, 108, 111, 115>>,                              \* Carlos
    <<67, 101, 115, 97, 114>>,                                   \* Cesar
    <<67, 104, 97, 114, 108, 105, 101>>,                         \* Charlie
    <<67, 104, 114, 105, 115>>,                                  \* Chris
    <<67, 111, 108, 105, 110>>,                                  \* Colin
    <<67, 114, 97, 105, 103>>,                                   \* Craig
    <<67, 114, 105, 115, 116, 105, 97, 110>>,                    \* Cristian
    <<68, 97, 110, 105, 101, 108>>,                              \* Daniel
    <<68, 97, 114, 114, 101, 110>>,                              \* Darren
    <<68, 97, 118, 105, 100>>,                                   \* David
    <<68, 101, 97, 110>>,                                        \* Dean
    <<68, 101, 114, 101, 107>>,                                  \* Derek
    <<68, 105, 101, 103, 111>>,                                  \* Diego
    <<68, 117, 110, 99, 97, 110>>,                               \* Duncan
    <<69, 100, 100, 105, 101>>,                                  \* Eddie
    <<69, 109, 105, 108>>,                                       \* Emil
    <<69, 114, 105, 107>>,                                       \* Erik
    <<69, 117, 97, 110>>,                                        \* Euan
    <<70, 97, 98, 105, 111>>,                                    \* Fabio
    <<70, 101, 108, 105, 112, 101>>,                             \* Felipe
    <<70, 101, 114, 110, 97, 110, 100, 111>>,                    \* Fernando
    <<70, 114, 97, 110>>,                                        \* Fran
    <<70, 114, 97, 110, 99, 101, 115, 99, 111>>,                 \* Francesco
    <<71, 97, 114, 121>>,                                        \* Gary
    <<71, 97, 118, 105, 110>>,                                   \* Gavin
    <<71, 101, 111, 114, 103, 101>>,                             \* George
    <<71, 111, 114, 100, 111, 110>>,                             \* Gordon
    <<71, 114, 97, 104, 97, 109>>,                               \* Graham
    <<71, 114, 97, 110, 116>>,                                   \* Grant
    <<72, 97, 114, 114, 121>>,                                   \* Harry
    <<72, 101, 110, 114, 105, 107>>,                             \* Henrik
    <<73, 97, 105, 110>>,                                        \* Iain
    <<73, 97, 110>>,                                             \* Ian
    <<73, 118, 97, 110>>,                                        \* Ivan
    <<74, 97, 99, 107>>,                                         \* Jack
    <<74, 97, 109, 101, 115>>,                                   \* James
    <<74, 97, 109, 105, 101>>,                                   \* Jamie
    <<74, 97, 115, 111, 110>>,                                   \* Jason
    <<74, 97, 118, 105, 101, 114>>,                              \* Javier
    <<74, 111, 97, 111>>,                                        \* Joao
    <<74, 111, 104, 97, 110>>,                                   \* Johan
    <<74, 111, 104, 110>>,                                       \* John
    <<74, 111, 114, 100, 97, 110>>,                              \* Jordan
    <<74, 111, 115, 101>>,                                       \* Jose
    <<74, 117, 97, 110>>,                                        \* Juan
    <<74, 117, 108, 105, 97, 110>>,                              \* Julian
    <<75, 97, 114, 101, 108>>,                                   \* Karel
    <<75, 101, 118, 105, 110>>,                                  \* Kevin
    <<75, 121, 108, 101>>,                                       \* Kyle
    <<76, 101, 101>>,                                            \* Lee
    <<76, 101, 119, 105, 115>>,                                  \* Lewis
    <<76, 105, 97, 109>>,                                        \* Liam
    <<76, 117, 99, 97>>,                                         \* Luca
    <<77, 97, 114, 99, 111>>,                                    \* Marco
    <<77, 97, 114, 105, 111>>,                                   \* Mario
    <<77, 97, 114, 107>>,                                        \* Mark
    <<77, 97, 114, 116, 105, 110>>,                              \* Martin
    <<77, 97, 116, 116>>,                                        \* Matt
    <<77, 97, 116, 116, 104, 101, 119>>,                         \* Matthew
    <<77, 105, 99, 104, 97, 101, 108>>,                          \* Michael
    <<77, 105, 99, 107>>,                                        \* Mick
    <<77, 105, 103, 117, 101, 108>>,                             \* Miguel
    <<78, 101, 105, 108>>,                                       \* Neil
    <<78, 105, 97, 108, 108>>,                                   \* Niall
    <<78, 105, 99, 107>>,                                        \* Nick
    <<78, 105, 107, 111, 108, 97>>,                              \* Nikola
    <<79, 115, 99, 97, 114>>,                                    \* Oscar
    <<80, 97, 98, 108, 111>>,                                    \* Pablo
    <<80, 97, 117, 108>>,                                        \* Paul
    <<80, 101, 100, 114, 111>>,                                  \* Pedro
    <<80, 101, 116, 101, 114>>,                                  \* Peter
    <<82, 97, 102, 97, 101, 108>>,                               \* Rafael
    <<82, 105, 99, 97, 114, 100, 111>>,                          \* Ricardo
    <<82, 111, 98>>,                                             \* Rob
    <<82, 111, 98, 101, 114, 116>>,                              \* Robert
    <<82, 111, 98, 101, 114, 116, 111>>,                         \* Roberto
    <<82, 111, 115, 115>>,                                       \* Ross
    <<82, 121, 97, 110>>,                                        \* Ryan
    <<83, 97, 109>>,                                             \* Sam
    <<83, 99, 111, 116, 116>>,                                   \* Scott
    <<83, 101, 97, 110>>,                                        \* Sean
    <<83, 101, 114, 103, 105, 111>>,                             \* Sergio
    <<83, 105, 109, 111, 110>>,                                  \* Simon
    <<83, 116, 101, 102, 97, 110>>,                              \* Stefan
    <<83, 116, 101, 112, 104, 101, 110>>,                        \* Stephen
    <<83, 116, 101, 118, 101, 110>>,                             \* Steven
    <<83, 116, 117, 97, 114, 116>>,                              \* Stuart
    <<84, 104, 111, 109, 97, 115>>,                              \* Thomas
    <<84, 111, 109>>,                                            \* Tom
    <<84, 111, 110, 121>>,                                       \* Tony
    <<86, 105, 107, 116, 111, 114>>,                             \* Viktor
    <<87, 105, 108, 108>>,                                       \* Will
    <<87, 105, 108, 108, 105, 97, 109>>                          \* William
  }

\* s[:1].upper() + s[1:].lower()
Capitalized(s) == Upper(SubSeq(s, 1, Min2(1, Len(s)))) \o Lower(SubSeq(s, 2, Len(s)))

\* load_firstnames(path): the built-in names and, capitalized, the stripped
\* lines of the file that are neither empty nor comments (#); lines = <<>>
\* when no path is given.
load_firstnames(lines) ==
  DEFAULT_FIRSTNAMES \cup
    { Capitalized(Strip(lines[k])) :
        k \in {j \in 1..Len(lines) : Strip(lines[j]) # <<>> /\ Strip(lines[j])[1] # 35} }

\* TOKEN_RE.match(s): ^[A-Za-z][A-Za-z'\-]{1,23}$ ($ also matches in front of
\* a last line feed)
TOKEN_RE(s) ==
  LET t == IF s # <<>> /\ s[Len(s)] = 10 THEN SubSeq(s, 1, Len(s) - 1) ELSE s
  IN  \/ NAME_TOKEN_RE(s)
      \/ NAME_TOKEN_RE(t)

\* the blacklist of is_plausible_token
blacklist ==
  {
    <<68, 105, 118, 105, 115, 105, 111, 110>>,                   \* Division
    <<80, 114, 101, 109, 105, 101, 114>>,                        \* Premier
    <<76, 101, 97, 103, 117, 101>>,                              \* League
    <<83, 99, 111, 116, 116, 105, 115, 104>>,                    \* Scottish
    <<82, 101, 115, 101, 114, 118, 101>>,                        \* Reserve
    <<85, 110, 105, 116, 101, 100>>,                             \* United
    <<67, 105, 116, 121>>,                                       \* City
    <<82, 111, 118, 101, 114, 115>>,                             \* Rovers
    <<65, 116, 104, 108, 101, 116, 105, 99>>,                    \* Athletic
    <<67, 111, 117, 110, 116, 121>>,                             \* County
    <<70, 111, 111, 116, 98, 97, 108, 108>>,                     \* Football
    <<67, 108, 117, 98>>                                         \* Club
  }

\* str.isupper(): a cased character, and no lowercase one
StrIsUpper(s) ==
  /\ \E k \in 1..Len(s) : IsUpper(s[k])
  /\ \A k \in 1..Len(s) : ~IsLower(s[k])

\* is_plausible_token(s)
is_plausible_token(s0) ==
  LET s == Strip(s0)
  IN  /\ 2 <= Len(s) /\ Len(s) <= 24
      /\ TOKEN_RE(s)
      /\ s \notin blacklist
      /\ ~(StrIsUpper(s) /\ Len(s) > 5)

\* infer_step going on from the surname of a pair it has just made.
infer_step_reuse(tokens, firstnames, st) ==
  LET t == tokens[st.i + 1]
      v == Upper(SubSeq(t.value, 1, Min2(1, Len(t.value)))) \o SubSeq(t.value, 2, Len(t.value))
  IN  IF v \in firstnames /\ st.i + 1 < Len(tokens) /\ is_plausible_token(tokens[st.i + 2].value)
      THEN [st EXCEPT !.pairs = Append(st.pairs, <<v, tokens[st.i + 2].value, t.source, t.offset>>),
                      !.i = st.i + 1]
      ELSE [st EXCEPT !.singles = Append(st.singles, t), !.i = st.i + 1]

\* One round of the loop of infer_pairs, at the token st.i (from 0).
infer_step(tokens, firstnames, st) ==
  LET t == tokens[st.i + 1]
      v == Upper(SubSeq(t.value, 1, Min2(1, Len(t.value)))) \o SubSeq(t.value, 2, Len(t.value))
  IN  IF v \in firstnames /\ st.i + 1 < Len(tokens) /\ is_plausible_token(tokens[st.i + 2].value)
      THEN [st EXCEPT !.pairs = Append(st.pairs, <<v, tokens[st.i + 2].value, t.source, t.offset>>),
                      !.i = st.i + 2]
      ELSE [st EXCEPT !.singles = Append(st.singles, t), !.i = st.i + 1]

\* pairs_unique with the whole tuple as the key.
pairs_unique_step_fullkey(pairs, st) ==
  LET p == pairs[st.k + 1]
      key == p
      nx == [st EXCEPT !.k = st.k + 1]
  IN  IF key \in st.seen THEN nx
      ELSE [nx EXCEPT !.seen = st.seen \cup {key}, !.unique = Append(st.unique, p)]

\* main: one round of the loop that de-duplicates the pairs by (first, last).
pairs_unique_step(pairs, st) ==
  LET p == pairs[st.k + 1]
      key == <<p[1], p[2]>>
      nx == [st EXCEPT !.k = st.k + 1]
  IN  IF key \in st.seen THEN nx
      ELSE [nx EXCEPT !.seen = st.seen \cup {key}, !.unique = Append(st.unique, p)]

RECURSIVE pairs_unique_run(_, _, _)
pairs_unique_run(pairs, st, n) ==
  IF n = 0 \/ ~(st.k < Len(pairs)) THEN st
  ELSE IF n = 1 THEN pairs_unique_step(pairs, st)
  ELSE pairs_unique_run(pairs, pairs_unique_run(pairs, st, n \div 2), n - (n \div 2))

pairs_unique(pairs) ==
  pairs_unique_run(pairs, [k |-> 0, seen |-> {}, unique |-> <<>>], Len(pairs)).unique

\* main: one round of the loop that de-duplicates the singles by their text.
singles_unique_step(singles, st) ==
  LET t == singles[st.k + 1]
      nx == [st EXCEPT !.k = st.k + 1]
  IN  IF t.value \in st.seen THEN nx
      ELSE [nx EXCEPT !.seen = st.seen \cup {t.value}, !.unique = Append(st.unique, t)]

RECURSIVE singles_unique_run(_, _, _)
singles_unique_run(singles, st, n) ==
  IF n = 0 \/ ~(st.k < Len(singles)) THEN st
  ELSE IF n = 1 THEN singles_unique_step(singles, st)
  ELSE singles_unique_run(singles, singles_unique_run(singles, st, n \div 2), n - (n \div 2))

singles_unique(singles) ==
  singles_unique_run(singles, [k |-> 0, seen |-> {}, unique |-> <<>>], Len(singles)).unique

\* The texts of the generated token streams.
TokenValues ==
  { <<74, 111, 104, 110>>,             \* John, a first name
    <<74, 79, 72, 78>>,                \* JOHN
    <<106, 111, 104, 110>>,            \* john
    <<76, 101, 101>>,                  \* Lee, a first name
    <<83, 109, 105, 116, 104>>,        \* Smith
    <<76, 101, 97, 103, 117, 101>>,    \* League, blacklisted
    <<65, 66, 67, 68, 69, 70>> }       \* ABCDEF, a header in capitals

\* Token(value, source, offset), in offset order.
TokenStreams ==
  { [k \in 1..Len(vs) |-> [value |-> vs[k], source |-> IF k = 1 THEN "slot16" ELSE "blob",
                           offset |-> 16 * (k - 1)]] :
      vs \in UNION {SeqsOf(TokenValues, n) : n \in 0..MaxToks} }

\* The lines of the first-name file: none, or a comment, a blank and " smith ".
FirstnameFiles ==
  { <<>>, << <<35, 120>>, <<32>>, <<32, 115, 109, 105, 116, 104, 32>> >> }

InitPair ==
  /\ \E ts \in TokenStreams, f \in FirstnameFiles :
       pair = [pc |-> "infer", tokens |-> ts, firstnames |-> load_firstnames(f), i |-> 0,
               pairs |-> <<>>, singles |-> <<>>, pairs_unique |-> None, singles_unique |-> None]
  /\ data = <<>>
  /\ scan = Idle
  /\ pscan = Idle
  /\ text = <<>>
  /\ seg = Idle
  /\ run = Idle
  /\ solver = Idle

\* infer_pairs: while i < len(tokens), one round
InferStep ==
  /\ pair.pc = "infer"
  /\ pair.i < Len(pair.tokens)
  /\ pair' = infer_step(pair.tokens, pair.firstnames, pair)
  /\ UNCHANGED <<data, scan, pscan, text, seg, run, solver>>

\* infer_pairs: return pairs, singles
InferReturn ==
  /\ pair.pc = "infer"
  /\ ~(pair.i < Len(pair.tokens))
  /\ pair' = [pair EXCEPT !.pc = "dedup_pairs"]
  /\ UNCHANGED <<data, scan, pscan, text, seg, run, solver>>

DedupPairs ==
  /\ pair.pc = "dedup_pairs"
  /\ pair' = [pair EXCEPT !.pc = "dedup_singles", !.pairs_unique = Some(pairs_unique(pair.pairs))]
  /\ UNCHANGED <<data, scan, pscan, text, seg, run, solver>>

DedupSingles ==
  /\ pair.pc = "dedup_singles"
  /\ pair' = [pair EXCEPT !.pc = "done", !.singles_unique = Some(singles_unique(pair.singles))]
  /\ UNCHANGED <<data, scan, pscan, text, seg, run, solver>>

NextPair == InferStep \/ InferReturn \/ DedupPairs \/ DedupSingles

SpecPair == InitPair /\ [][NextPair]_vars

-----------------------------------------------------------------------------
(* Numeric Table Solver *)

Abs(x) == IF x < 0 THEN -x ELSE x

SeqMax(q) == CHOOSE x \in {q[j] : j \in 1..Len(q)} : \A j \in 1..Len(q) : q[j] <= x
SeqMin(q) == CHOOSE x \in {q[j] : j \in 1..Len(q)} : \A j \in 1..Len(q) : q[j] >= x

\* struct.unpack_from("<H" * n, data, off) and ("<I" * n, data, off):
\* unsigned, little-endian.
U16LE(d, o) == d[o + 1] + 256 * d[o + 2]
U32LE(d, o) == d[o + 1] + 256 * d[o + 2] + 65536 * d[o + 3] + 16777216 * d[o + 4]
unpack_u16(d, n, off) == [j \in 1..n |-> U16LE(d, off + 2 * (j - 1))]
unpack_u32(d, n, off) == [j \in 1..n |-> U32LE(d, off + 4 * (j - 1))]

\* The sum of abs(pred[idx] - val) over the items (idx, val) of truth in S.
RECURSIVE SumAbsErr(_, _, _)
SumAbsErr(pred, truth, S) ==
  IF S = {} THEN 0
  ELSE LET idx == CHOOSE i \in S : TRUE
       IN  Abs(pred[idx + 1] - truth[idx]) + SumAbsErr(pred, truth, S \ {idx})

\* _mean_abs_error dividing by len(truth) itself.
mean_abs_error_nomax(pred, truth) ==
  [num |-> SumAbsErr(pred, truth, DOMAIN truth), den |-> Cardinality(DOMAIN truth)]

\* _mean_abs_error summing over every index of pred, an index that is no
\* anchor counting with the value 0.
mean_abs_error_dense(pred, truth) ==
  LET full == [i \in 0..(Len(pred) - 1) |-> IF i \in DOMAIN truth THEN truth[i] ELSE 0]
  IN  [num |-> SumAbsErr(pred, full, DOMAIN full), den |-> Max2(1, Cardinality(DOMAIN truth))]

\* _mean_abs_error(pred, truth): err / max(1, len(truth)), kept as the
\* fraction num / den (the sums are whole numbers far below 2^53, so the
\* float quotient orders as the fraction does).
mean_abs_error(pred, truth) ==
  [num |-> SumAbsErr(pred, truth, DOMAIN truth), den |-> Max2(1, Cardinality(DOMAIN truth))]

\* a["mae"] <= b["mae"]
MaeLeq(a, b) == a.num * b.den <= b.num * a.den

\* list.sort(key=mae) left out.
sort_by_mae_none(out) == out

\* out.sort(key=lambda r: r["mae"]): a stable sort, each entry going behind
\* the entries placed so far whose error is not greater.
RECURSIVE sort_insert(_, _, _)
sort_insert(out, sorted, j) ==
  IF j > Len(out) THEN sorted
  ELSE LET x == out[j]
           c == Cardinality({m \in 1..Len(sorted) : MaeLeq(sorted[m].mae, x.mae)})
       IN  sort_insert(out, SubSeq(sorted, 1, c) \o <<x>> \o SubSeq(sorted, c + 1, Len(sorted)),
                       j + 1)

sort_by_mae(out) == sort_insert(out, <<>>, 1)

\* end = min(search_end, len(data) - byte_len), search_end = len(data)
u16_end(d, n) == Min2(Len(d), Len(d) - 2 * n)
u32_end(d, n) == Min2(Len(d), Len(d) - 4 * n)

\* solve_u16_scaled_tables: the body of "for off in range(search_start, end, step)".
u16_body(d, st) ==
  LET vals == unpack_u16(d, st.n, st.off)
      mx == SeqMax(vals)
      cand(k) ==
        LET pred == [j \in 1..Len(vals) |-> vals[j] * k]
        IN  [kind |-> <<"u16_x", k>>, offset |-> st.off, scale |-> k,
             mae |-> mean_abs_error(pred, st.truth), min |-> SeqMin(pred), max |-> SeqMax(pred)]
  IN  IF mx = 0 THEN [st EXCEPT !.off = st.off + 1]
      ELSE [st EXCEPT !.off = st.off + 1,
                      !.out = st.out \o [j \in 1..Len(st.scales) |-> cand(st.scales[j])]]

\* solve_u32_tables: the body of "for off in range(search_start, end, step)".
u32_body(d, st) ==
  LET vals == unpack_u32(d, st.n, st.off)
      mx == SeqMax(vals)
  IN  IF mx < 1000 THEN [st EXCEPT !.off = st.off + 1]
      ELSE [st EXCEPT !.off = st.off + 1,
                      !.out = Append(st.out,
                                [kind |-> <<"u32">>, offset |-> st.off, scale |-> 1,
                                 mae |-> mean_abs_error(vals, st.truth),
                                 min |-> SeqMin(vals), max |-> SeqMax(vals)])]

\* main: topA = candA[:25] + candA32[:25]; topA.sort(key=mae)
combine_top(candA, candA32) == sort_by_mae(Slice(candA, 0, 25) \o Slice(candA32, 0, 25))

\* main: truthA, the anchors of dataset A, and the scales
truthA == (30 :> 30000) @@ (22 :> 44000) @@ (15 :> 44000) @@ (38 :> 86000) @@ (36 :> 83000)
scales == <<1, 2, 4, 5, 10, 20, 25, 50, 100>>

\* Short buffers, searched for tables of 2 entries.
SolveBytes == {0, 1, 4}
\* Anchor maps of 0, 1 and 2 entries.
SmallTruths == { <<>>, (0 :> 1), (1 :> 1024), (0 :> 2) @@ (1 :> 1) }
SmallSolveBuffers == UNION {SeqsOf(SolveBytes, n) : n \in 0..MaxSolveBuf}

\* Buffers that hold two 32-bit entries: (1024, 1), (1000, 0), (999, 0).
U32Buffers ==
  { pre \o arr \o post :
      pre \in {<<>>, <<0>>, <<0, 0>>},
      arr \in { <<0, 4, 0, 0, 1, 0, 0, 0>>, <<232, 3, 0, 0, 0, 0, 0, 0>>,
                <<231, 3, 0, 0, 0, 0, 0, 0>> },
      post \in {<<>>, <<0>>} }

\* A 64-entry uint16 array whose entries times s are the anchors of truthA.
ExactArray(s) ==
  Flatten([j \in 1..TEAM_COUNT |->
             LET v == IF (j - 1) \in DOMAIN truthA THEN truthA[j - 1] \div s ELSE 7 + j
             IN  <<v % 256, v \div 256>>])

\* Files holding the exact array after p bytes and in front of t bytes.
ExactBuffers ==
  { Repeat(b, p) \o ExactArray(s) \o Repeat(0, t) :
      b \in {0, 9}, p \in 0..MaxPrefix, s \in {2, 100}, t \in 0..2 }

SolveStart(n, truth, sc) ==
  [pc |-> "u16", n |-> n, truth |-> truth, scales |-> sc, off |-> 0, out |-> <<>>,
   candA |-> None, candA32 |-> None, topA |-> None]

InitSolve ==
  /\ \/ \E c \in (SmallSolveBuffers \X SmallTruths) \cup (U32Buffers \X SmallTruths) :
          /\ data = c[1]
          /\ solver = SolveStart(2, c[2], <<1, 2>>)
     \/ /\ data \in ExactBuffers
        /\ solver = SolveStart(TEAM_COUNT, truthA, scales)
  /\ scan = Idle
  /\ pscan = Idle
  /\ text = <<>>
  /\ seg = Idle
  /\ run = Idle
  /\ pair = Idle

\* solve_u16_scaled_tables: one offset
Scan16 ==
  /\ solver.pc = "u16"
  /\ solver.off < u16_end(data, solver.n)
  /\ solver' = u16_body(data, solver)
  /\ UNCHANGED <<data, scan, pscan, text, seg, run, pair>>

\* solve_u16_scaled_tables: out.sort(...); return out
Sort16 ==
  /\ solver.pc = "u16"
  /\ ~(solver.off < u16_end(data, solver.n))
  /\ solver' = [solver EXCEPT !.pc = "u32", !.candA = Some(sort_by_mae(solver.out)),
                              !.out = <<>>, !.off = 0]
  /\ UNCHANGED <<data, scan, pscan, text, seg, run, pair>>

\* solve_u32_tables: one offset
Scan32 ==
  /\ solver.pc = "u32"
  /\ solver.off < u32_end(data, solver.n)
  /\ solver' = u32_body(data, solver)
  /\ UNCHANGED <<data, scan, pscan, text, seg, run, pair>>

\* solve_u32_tables: out.sort(...); return out
Sort32 ==
  /\ solver.pc = "u32"
  /\ ~(solver.off < u32_end(data, solver.n))
  /\ solver' = [solver EXCEPT !.pc = "top", !.candA32 = Some(sort_by_mae(solver.out)),
                              !.out = <<>>, !.off = 0]
  /\ UNCHANGED <<data, scan, pscan, text, seg, run, pair>>

\* main: the combined top list
CombineTop ==
  /\ solver.pc = "top"
  /\ solver' = [solver EXCEPT !.pc = "done",
                              !.topA = Some(combine_top(solver.candA[1], solver.candA32[1]))]
  /\ UNCHANGED <<data, scan, pscan, text, seg, run, pair>>

NextSolve == Scan16 \/ Sort16 \/ Scan32 \/ Sort32 \/ CombineTop

SpecSolve == InitSolve /\ [][NextSolve]_vars

-----------------------------------------------------------------------------
(* Claims about the slot scanner, under SpecSlot *)

\* The tables returned so far and the run being extended.
Runs == [k \in 1..(Len(scan.tables) + 1) |->
           IF k <= Len(scan.tables) THEN scan.tables[k] ELSE scan.slots]

\* C1: every table returned by find_slot16_tables has at least 8 records, and
\* consecutive records of a table lie exactly 16 bytes apart; a run of fewer
\* than 8 valid slots is never returned as a table.
C1_TablesLongAndStrided ==
  \A t \in 1..Len(scan.tables) :
    LET tab == scan.tables[t]
    IN  /\ Len(tab) >= 8
        /\ \A j \in 1..(Len(tab) - 1) : tab[j + 1][1] - tab[j][1] = 16

\* The scan is over, it returned a table, and it had discarded the shorter run
\* of valid slots that starts the buffer.
C1_Witness ==
  /\ scan.pc = "done"
  /\ Len(scan.tables) >= 1
  /\ read_slot16(data, 0) # None
  /\ scan.tables[1][1][1] > 0

\* What C2 requires of the slot at offset o whose decoded text is s.
SlotRecordOk(d, o, s) ==
  /\ o + 16 <= Len(d)
  /\ 1 <= d[o + 1] /\ d[o + 1] <= 15
  /\ s # <<>>
  /\ \E k \in 1..Len(s) : s[k] \in Letters
  /\ \A k \in 1..Len(s) : s[k] \in Letters \cup {32, 39, 45, 46}

\* C2: every record (offset, text) of every table (and of the run being built)
\* has a length byte in 1..15, a slot inside the buffer, and a non-empty text
\* with a letter and only allowed characters; the slot being decoded is
\* rejected when it violates any of these.
C2_RecordsAreSlotRecords ==
  /\ \A t \in 1..Len(Runs) : \A j \in 1..Len(Runs[t]) :
       SlotRecordOk(data, Runs[t][j][1], Runs[t][j][2])
  /\ scan.pc = "read" =>
       LET o == scan.off
           s == IF o + 16 <= Len(data) /\ data[o + 1] <= 15
                THEN Strip(Decode(SubSeq(data, o + 2, o + 1 + data[o + 1])))
                ELSE <<>>
       IN  ~SlotRecordOk(data, o, s) => find_read(data, scan).slots = scan.slots

\* A table was returned that holds a stripped text (" A.b " read as "A.b"), and
\* the run ended at a slot rejected for its text alone.
C2_Witness ==
  /\ scan.pc = "done"
  /\ \E t \in 1..Len(scan.tables) : \E j \in 1..Len(scan.tables[t]) :
       scan.tables[t][j][2] = <<65, 46, 98>>
  /\ \E o \in 0..(Len(data) - 16) :
       /\ data[o + 1] = 3
       /\ read_slot16(data, o) = None
       /\ \E t \in 1..Len(scan.tables) : scan.tables[t][Len(scan.tables[t])][1] = o - 16

\* d is k >= 8 valid slot records from offset 0 followed by one invalid record.
ValidThenInvalid(d, k) ==
  /\ k >= 8
  /\ Len(d) = 16 * (k + 1)
  /\ \A j \in 0..(k - 1) : read_slot16(d, 16 * j) # None
  /\ read_slot16(d, 16 * k) = None

\* C3: on k >= 8 valid records followed by one invalid record (10 in the
\* scenario), find_slot16_tables returns exactly one table, of exactly k
\* records at offsets 0, 16, ..., 16(k-1).
C3_OneTableOfK ==
  \A k \in 8..(Len(data) \div 16) :
    (scan.pc = "done" /\ ValidThenInvalid(data, k)) =>
      /\ Len(scan.tables) = 1
      /\ Len(scan.tables[1]) = k
      /\ \A j \in 1..k : scan.tables[1][j][1] = 16 * (j - 1)

\* The scenario itself: 10 valid records and one invalid record, scanned.
C3_Witness ==
  /\ scan.pc = "done"
  /\ ValidThenInvalid(data, 10)
  /\ Len(scan.tables[1]) = 10

-----------------------------------------------------------------------------
(* Claims about the Pascal scanner, under SpecPascal *)

\* Offset 1500 holds the length byte 8 followed by "Aberdeen".
HasAberdeen(d) ==
  /\ Len(d) >= 1509
  /\ SubSeq(d, 1501, 1509) = <<8>> \o Aberdeen

DefaultRange == pscan.min_len = 3 /\ pscan.max_len = 24

\* C5: whatever precedes offset 1500, when offset 1500 holds 8, "Aberdeen",
\* extract_pascal_strings (default range) emits (1500, "Aberdeen") and emits
\* no token at an offset in 1501..1508.
C5_AberdeenFound ==
  (HasAberdeen(data) /\ DefaultRange) =>
    /\ \A k \in 1..Len(pscan.out) : pscan.out[k][1] \notin 1501..1508
    /\ (pscan.pc = "done" \/ pscan.i > 1500) =>
         \E k \in 1..Len(pscan.out) : pscan.out[k] = <<1500, Aberdeen>>

\* The scan of such a buffer is over, and the byte in front of offset 1500 is
\* itself a length byte in range.
C5_Witness ==
  /\ HasAberdeen(data) /\ DefaultRange
  /\ pscan.pc = "done"
  /\ data[1500] \in 3..24
  /\ \E k \in 1..Len(pscan.out) : pscan.out[k] = <<1500, Aberdeen>>

\* C6: the tokens of extract_pascal_strings are in strictly increasing offset
\* order and never overlap (the next token starts at or after a + 1 + L_a);
\* each token's length byte is in [min_len, max_len] and its 1 + L bytes lie
\* inside the buffer.
C6_OrderedDisjointTokens ==
  /\ \A k \in 1..Len(pscan.out) :
       LET a == pscan.out[k][1]
       IN  /\ 0 <= a /\ a < Len(data)
           /\ pscan.min_len <= data[a + 1] /\ data[a + 1] <= pscan.max_len
           /\ a + 1 + data[a + 1] <= Len(data)
  /\ \A k \in 1..(Len(pscan.out) - 1) :
       LET a == pscan.out[k][1]
           b == pscan.out[k + 1][1]
       IN  a < b /\ b >= a + 1 + data[a + 1]

\* Two tokens were emitted, the first over a text one of whose bytes is itself
\* a length byte in range.
C6_Witness ==
  /\ pscan.pc = "done"
  /\ Len(pscan.out) >= 2
  /\ LET a == pscan.out[1][1]
     IN  \E k \in (a + 1)..(a + data[a + 1]) :
           pscan.min_len <= data[k + 1] /\ data[k + 1] <= pscan.max_len

-----------------------------------------------------------------------------
(* Claims about the token segmenter, under SpecTok *)

\* C8: segmenting "AndersonDiamondMcNaughtonMacPherson" yields exactly
\* Anderson, Diamond, McNaughton, MacPherson, in tokenize_mixed and in both
\* split_concatenated_names.
C8_AndersonRoundTrip ==
  text = AndersonEtc =>
    \A r \in {seg.mixed, seg.all, seg.names} :
      r # None => r[1] = <<Anderson, Diamond, McNaughton, MacPherson>>

\* The three implementations have all segmented the scenario's string.
C8_Witness ==
  /\ text = AndersonEtc
  /\ seg.mixed # None /\ seg.all # None /\ seg.names # None
  /\ Len(seg.mixed[1]) = 4

\* The words of s, s being words joined by single spaces.
RECURSIVE WordsOf(_)
WordsOf(s) ==
  IF \A k \in 1..Len(s) : s[k] # 32 THEN <<s>>
  ELSE LET sp == CHOOSE k \in 1..Len(s) : s[k] = 32 /\ \A m \in 1..(k - 1) : s[m] # 32
       IN  <<SubSeq(s, 1, sp - 1)>> \o WordsOf(SubSeq(s, sp + 1, Len(s)))

\* One uppercase letter followed by zero or more lowercase letters.
CapWord(w) ==
  /\ w # <<>>
  /\ w[1] \in AsciiUpper
  /\ \A k \in 2..Len(w) : w[k] \in AsciiLower

\* s is a sequence of capitalized words joined by single spaces.
CapWords(s) == s # <<>> /\ \A k \in 1..Len(WordsOf(s)) : CapWord(WordsOf(s)[k])

\* C9 as stated: tokenize_mixed applied to capitalized words joined by single
\* spaces returns exactly those words, in order.
C9_Idempotent ==
  /\ (text = <<>> /\ seg.mixed # None) => seg.mixed[1] = <<>>
  /\ (CapWords(text) /\ seg.mixed # None) => seg.mixed[1] = WordsOf(text)

\* C9 as amended: the same, for capitalized words none of which, the last
\* excepted, is exactly "Mc" or "Mac".
C9_IdempotentButMc ==
  /\ (text = <<>> /\ seg.mixed # None) => seg.mixed[1] = <<>>
  /\ (/\ CapWords(text)
      /\ \A k \in 1..(Len(WordsOf(text)) - 1) : WordsOf(text)[k] \notin {Mc, Mac}
      /\ seg.mixed # None)
     => seg.mixed[1] = WordsOf(text)

\* Two capitalized words, the last of them "Mc", segmented.
C9_Witness ==
  /\ CapWords(text)
  /\ Len(WordsOf(text)) = 2
  /\ WordsOf(text)[2] = Mc
  /\ seg.mixed = Some(WordsOf(text))

AnyLetter(c) == IsAlpha(c)

\* C10 as stated: every token of tokenize_mixed is non-empty, begins with a
\* letter, has length 2..24 and holds only letters, apostrophes and hyphens.
C10_TokensAreNameTokens ==
  seg.mixed # None =>
    \A k \in 1..Len(seg.mixed[1]) :
      LET t == seg.mixed[1][k]
      IN  /\ t # <<>>
          /\ AnyLetter(t[1])
          /\ 2 <= Len(t) /\ Len(t) <= 24
          /\ \A m \in 1..Len(t) : AnyLetter(t[m]) \/ t[m] \in {39, 45}

\* C10 as amended: every token of tokenize_mixed is non-empty and holds only
\* letters, apostrophes and hyphens (its first character and its length are
\* not constrained).
C10_TokensAreNameRuns ==
  seg.mixed # None =>
    \A k \in 1..Len(seg.mixed[1]) :
      LET t == seg.mixed[1][k]
      IN  /\ t # <<>>
          /\ \A m \in 1..Len(t) : AnyLetter(t[m]) \/ t[m] \in {39, 45}

\* A text with a period in it was segmented into a one-letter token and a
\* token that begins with an apostrophe.
C10_Witness ==
  /\ seg.mixed # None
  /\ \E k \in 1..Len(text) : text[k] = 46
  /\ \E k \in 1..Len(seg.mixed[1]) : Len(seg.mixed[1][k]) = 1
  /\ \E k \in 1..Len(seg.mixed[1]) : seg.mixed[1][k][1] = 39

-----------------------------------------------------------------------------
(* Claims about main, under Spec *)

\* Some offset of d starts at least 8 consecutive valid slots at stride 16.
HasRun(d) ==
  \E p \in 0..(Len(d) - 8 * 16) : \A j \in 0..7 : read_slot16(d, p + 16 * j) # None

\* C4: when the buffer holds no run of at least 8 consecutive valid slots
\* (the empty buffer and buffers shorter than a slot included),
\* find_slot16_tables returns the empty list and main returns 2 before any
\* later stage has run.
C4_NoTableIsStatus2 ==
  (~HasRun(data) /\ run.pc # "start") =>
    /\ run.tables = Some(<<>>)
    /\ run.pc = "returned"
    /\ run.status = Some(2)
    /\ run.tokens = None /\ run.rowsA = None
    /\ run.pas = None /\ run.teamsB = None
    /\ run.blocksB = None /\ run.rowsB = None

\* main has returned 2 on a file that holds valid slots, and Pascal strings in
\* the scan window, but no table.
C4_Witness ==
  /\ run.status = Some(2)
  /\ ~HasRun(data)
  /\ read_slot16(data, TEAM_TABLE_OFFSET) # None
  /\ Len(data) > TEAMLIST_B_SCAN_MAX

\* C7: the secondary entity list holds only Pascal tokens with an offset in
\* [1200, 3000], in ascending offset order; no two of its texts are equal
\* case-insensitively, the one kept being the lowest-offset occurrence in the
\* window; every text has length >= 4; no text holds LEAGUE or DIVISION in any
\* letter case.
C7_TeamsBFiltered ==
  run.teamsB # None =>
    LET tb == run.teamsB[1]
        pas == run.pas[1]
    IN  /\ \A k \in 1..Len(tb) :
             /\ \E j \in 1..Len(pas) : pas[j] = tb[k]
             /\ 1200 <= tb[k][1] /\ tb[k][1] <= 3000
             /\ Len(tb[k][2]) >= 4
             /\ ~Contains(Upper(tb[k][2]), LEAGUE)
             /\ ~Contains(Upper(tb[k][2]), DIVISION)
             /\ \A j \in 1..Len(pas) :
                  (Lower(pas[j][2]) = Lower(tb[k][2]) /\ 1200 <= pas[j][1] /\ pas[j][1] <= 3000)
                    => tb[k][1] <= pas[j][1]
        /\ \A k \in 1..(Len(tb) - 1) : tb[k][1] < tb[k + 1][1]
        /\ \A j, k \in 1..Len(tb) : j # k => Lower(tb[j][2]) # Lower(tb[k][2])

\* The list was built from tokens before, at the ends of and after the window,
\* and a later token equal to a kept one but for its letter case was dropped.
C7_Witness ==
  /\ run.teamsB # None
  /\ LET tb == run.teamsB[1]
         pas == run.pas[1]
     IN  /\ \E k \in 1..Len(tb) : tb[k][1] = 1200
         /\ \E k \in 1..Len(tb) : tb[k][1] = 3000
         /\ \E j \in 1..Len(pas) : pas[j][1] < 1200
         /\ \E j \in 1..Len(pas) : pas[j][1] > 3000
         /\ \E k \in 1..Len(tb) : \E j \in 1..Len(pas) :
              /\ pas[j][1] > tb[k][1] /\ pas[j][1] <= 3000
              /\ pas[j][2] # tb[k][2]
              /\ Lower(pas[j][2]) = Lower(tb[k][2])

-----------------------------------------------------------------------------
(* More claims about the token segmenter, under SpecTok *)

\* text is P, "Mc", W with W a capitalized word starting at index n + 2 (from
\* 1), and P empty or ending in a lowercase letter.
McThenWord(n) ==
  /\ 1 <= n /\ n + 2 <= Len(text)
  /\ text[n] = 77 /\ text[n + 1] = 99
  /\ CapWord(SubSeq(text, n + 2, Len(text)))
  /\ (n = 1 \/ IsLower(text[n - 1]))

\* C11: segmenting "Mc" + W alone yields the single token "Mc" + W, and
\* segmenting P + "Mc" + W, P ending in a lowercase letter, yields tokens the
\* last of which ends with "Mc" + W (tokenize_mixed and the
\* split_concatenated_names of extract_all_names.py).
C11_McNeverSplit ==
  \A n \in 1..Len(text) :
    McThenWord(n) =>
      \A r \in {seg.mixed, seg.all} :
        r # None =>
          /\ r[1] # <<>>
          /\ EndsWith(Last(r[1]), SubSeq(text, n, Len(text)))
          /\ n = 1 => r[1] = <<text>>

-----------------------------------------------------------------------------
(* Claims about the block mappers of main, under Spec *)

\* C12: a row of rowsA exists for the entity index i exactly when i >= 7,
\* window_start = -2 + (i - 7) * 21 >= 0 and window_start + 21 <= len(tokens);
\* its block is then tokens[window_start : window_start + 21], 21 tokens; an
\* entity with a window out of range is skipped and the others keep their rows.
C12_SquadAWindows ==
  run.rowsA # None =>
    LET tokens == run.tokens[1]
        rows == run.rowsA[1]
        ws(i) == -2 + (i - 7) * 21
        InRange(i) == i >= 7 /\ ws(i) >= 0 /\ ws(i) + 21 <= Len(tokens)
    IN  /\ \A k \in 1..Len(rows) :
             LET i == rows[k].team_index
             IN  /\ InRange(i)
                 /\ Len(rows[k].p) = 21
                 /\ \A j \in 1..21 : rows[k].p[j] = tokens[ws(i) + j]
        /\ \A i \in 0..63 : InRange(i) => \E k \in 1..Len(rows) : rows[k].team_index = i
        /\ \A k \in 1..(Len(rows) - 1) : rows[k].team_index < rows[k + 1].team_index

\* Entities 8 and 9 have their blocks; entity 7 (window_start -2) and entity 10
\* (window past the tokens) were skipped.
C12_Witness ==
  /\ run.rowsA # None
  /\ Len(run.rowsA[1]) = 2
  /\ run.rowsA[1][1].team_index = 8 /\ run.rowsA[1][2].team_index = 9
  /\ Len(run.tokens[1]) > 61

\* The candidate window k of the secondary dataset: tokens[10+16k : 26+16k].
WindowB(tokens, k) == SubSeq(tokens, 10 + 16 * k + 1, 26 + 16 * k)

\* Starts with a letter, length 2-24, only letters, apostrophes, hyphens.
NameShape(t) ==
  /\ Len(t) >= 2 /\ Len(t) <= 24
  /\ t[1] \in Letters
  /\ \A m \in 1..Len(t) : t[m] \in Letters \cup {39, 45}

\* The windows that fit in the tokens and hold at least 12 name-shaped tokens.
AcceptedB(tokens) ==
  { k \in 0..Len(tokens) :
      /\ 26 + 16 * k <= Len(tokens)
      /\ Cardinality({j \in 1..16 : NameShape(WindowB(tokens, k)[j])}) >= 12 }

\* The i-th member (from 1) of a set of numbers, in increasing order.
NthOf(S, i) == CHOOSE k \in S : Cardinality({m \in S : m < k}) = i - 1

\* C13: blocksB is the accepted windows in increasing k; row i of rowsB pairs
\* the i-th entity of the secondary list with the i-th accepted window, and
\* there are min(entities, accepted windows) rows.
C13_BlocksBFiltered ==
  run.rowsB # None =>
    LET tokens == run.tokens[1]
        acc == AcceptedB(tokens)
        blocksB == run.blocksB[1]
        teamsB == run.teamsB[1]
        rowsB == run.rowsB[1]
    IN  /\ Len(blocksB) = Cardinality(acc)
        /\ \A i \in 1..Len(blocksB) : blocksB[i] = WindowB(tokens, NthOf(acc, i))
        /\ Len(rowsB) = Min2(Len(teamsB), Cardinality(acc))
        /\ \A i \in 1..Len(rowsB) :
             /\ rowsB[i].team_index = i - 1
             /\ rowsB[i].team_name = teamsB[i][2]
             /\ rowsB[i].p = WindowB(tokens, NthOf(acc, i))

\* Window 0 was accepted with exactly 12 name-shaped tokens, window 1 was
\* rejected with 11, window 2 was accepted and went to the second entity.
C13_Witness ==
  /\ run.rowsB # None
  /\ Len(run.tokens[1]) >= 58
  /\ AcceptedB(run.tokens[1]) = {0, 2}
  /\ Cardinality({j \in 1..16 : NameShape(WindowB(run.tokens[1], 0)[j])}) = 12
  /\ Cardinality({j \in 1..16 : NameShape(WindowB(run.tokens[1], 1)[j])}) = 11
  /\ Len(run.rowsB[1]) = 2
  /\ run.rowsB[1][2].p = WindowB(run.tokens[1], 2)

-----------------------------------------------------------------------------
(* Claims about the pairing heuristic, under SpecPair *)

\* C14: in every round of infer_pairs, when the current token in capitalized
\* form (first letter uppercase, the rest lowercase) is a known first name and
\* a next token exists and is a plausible name token, a pair of the current
\* and the next token is emitted and both are consumed; otherwise the current
\* token is emitted as a single and it alone is consumed.
C14_PairRule ==
  [][ (pair.pc = "infer" /\ pair.i < Len(pair.tokens)) =>
        LET cur == pair.tokens[pair.i + 1]
            known == Capitalized(cur.value) \in pair.firstnames
            hasNext == pair.i + 1 < Len(pair.tokens)
        IN  IF known /\ hasNext /\ is_plausible_token(pair.tokens[pair.i + 2].value)
            THEN /\ pair'.i = pair.i + 2
                 /\ Len(pair'.pairs) = Len(pair.pairs) + 1
                 /\ SubSeq(pair'.pairs, 1, Len(pair.pairs)) = pair.pairs
                 /\ Last(pair'.pairs)[1] \in {cur.value, Capitalized(cur.value)}
                 /\ Last(pair'.pairs)[2] = pair.tokens[pair.i + 2].value
                 /\ pair'.singles = pair.singles
            ELSE /\ pair'.i = pair.i + 1
                 /\ pair'.singles = Append(pair.singles, cur)
                 /\ pair'.pairs = pair.pairs ]_vars

\* The members of 1..Len(xs) that are the first with their key.
FirstsOf(keys) == {k \in 1..Len(keys) : \A j \in 1..(k - 1) : keys[j] # keys[k]}

\* C15: after de-duplication no two pairs have the same (first, last) and no
\* two singles the same text; each list is the first occurrences, in order, of
\* the keys of the list it was made from.
C15_DedupFirstOccurrence ==
  /\ pair.pc \in {"dedup_singles", "done"} =>
       LET ps == pair.pairs
           pu == pair.pairs_unique[1]
           keys == [k \in 1..Len(ps) |-> <<ps[k][1], ps[k][2]>>]
       IN  /\ \A a, b \in 1..Len(pu) : a # b => <<pu[a][1], pu[a][2]>> # <<pu[b][1], pu[b][2]>>
           /\ Len(pu) = Cardinality(FirstsOf(keys))
           /\ \A a \in 1..Len(pu) : pu[a] = ps[NthOf(FirstsOf(keys), a)]
  /\ pair.pc = "done" =>
       LET ss == pair.singles
           su == pair.singles_unique[1]
           keys == [k \in 1..Len(ss) |-> ss[k].value]
       IN  /\ \A a, b \in 1..Len(su) : a # b => su[a].value # su[b].value
           /\ Len(su) = Cardinality(FirstsOf(keys))
           /\ \A a \in 1..Len(su) : su[a] = ss[NthOf(FirstsOf(keys), a)]

\* Two pairs with one key (John Smith, from "John" and from "john") were made
\* one, the earlier.
C15_Witness ==
  /\ pair.pc = "done"
  /\ Len(pair.pairs) = 2
  /\ pair.pairs[1] # pair.pairs[2]
  /\ pair.pairs_unique = Some(<<pair.pairs[1]>>)

-----------------------------------------------------------------------------
(* Claims about the numeric table solver, under SpecSolve *)

NonDecreasing(cs) == \A j \in 1..(Len(cs) - 1) : cs[j].mae.num * cs[j + 1].mae.den
                                                   <= cs[j + 1].mae.num * cs[j].mae.den

FirstIsLeast(cs) == \A j \in 1..Len(cs) : cs[1].mae.num * cs[j].mae.den
                                            <= cs[j].mae.num * cs[1].mae.den

\* C16: the lists returned by solve_u16_scaled_tables and solve_u32_tables
\* are in non-decreasing order of mean absolute error, the first element the
\* least of all; so is the combined top list of the caller.
C16_RankedByError ==
  \A r \in {solver.candA, solver.candA32, solver.topA} :
    r # None => NonDecreasing(r[1]) /\ FirstIsLeast(r[1])

\* The combined list holds candidates of both solvers, a 32-bit one in front of
\* a 16-bit one, and the 16-bit scan had met a larger error before a smaller.
C16_Witness ==
  /\ solver.pc = "done"
  /\ \E a, b \in 1..Len(solver.topA[1]) :
       /\ a < b
       /\ solver.topA[1][a].kind = <<"u32">>
       /\ solver.topA[1][b].kind # <<"u32">>
  /\ \E a, b \in 1..Len(solver.candA[1]) :
       /\ a < b
       /\ solver.candA[1][a].offset > solver.candA[1][b].offset
       /\ solver.candA[1][a].mae.num < solver.candA[1][b].mae.num

\* C17: every offset at which the array fits, the last one included, whose
\* array passes the filter (16-bit: some entry not 0; 32-bit: some entry of
\* 1000 or more) has a candidate for every scale.
C17_EveryFittingOffset ==
  /\ solver.candA # None =>
       \A off \in 0..(Len(data) - 2 * solver.n) :
         (\E j \in 0..(solver.n - 1) : U16LE(data, off + 2 * j) # 0) =>
           \A k \in 1..Len(solver.scales) :
             \E c \in 1..Len(solver.candA[1]) :
               /\ solver.candA[1][c].offset = off
               /\ solver.candA[1][c].scale = solver.scales[k]
  /\ solver.candA32 # None =>
       \A off \in 0..(Len(data) - 4 * solver.n) :
         (\E j \in 0..(solver.n - 1) : U32LE(data, off + 4 * j) >= 1000) =>
           \E c \in 1..Len(solver.candA32[1]) : solver.candA32[1][c].offset = off

\* The buffer holds at offset p a 64-entry uint16 array whose entries times s
\* are the anchors.
ExactAt(p, s) ==
  /\ p + 2 * 64 <= Len(data)
  /\ \A idx \in DOMAIN solver.truth : U16LE(data, p + 2 * idx) * s = solver.truth[idx]

\* C18: for n = 64, an exact array at p for the scale s gives a candidate
\* (p, s) of error 0 that is the first of the candidates of scale s, wherever
\* the array is, the end of the buffer included.
C18_ExactArrayOnTop ==
  (solver.candA # None /\ solver.n = 64) =>
    \A p \in 0..Len(data) : \A k \in 1..Len(solver.scales) :
      ExactAt(p, solver.scales[k]) =>
        \E c \in 1..Len(solver.candA[1]) :
          /\ solver.candA[1][c].offset = p
          /\ solver.candA[1][c].scale = solver.scales[k]
          /\ solver.candA[1][c].mae.num = 0
          /\ \A b \in 1..(c - 1) : solver.candA[1][b].scale # solver.scales[k]

\* The buffer with the entries of the array at off that are no anchors
\* replaced by other values.
Scrubbed(d, n, truth, off) ==
  [b \in 1..Len(d) |->
     IF b > off /\ b <= off + 2 * n /\ ((b - off - 1) \div 2) \notin DOMAIN truth
     THEN (d[b] + 1) % 256 ELSE d[b]]

\* The sum over the anchors in S of |raw[idx] * k - known[idx]|, raw the
\* unsigned little-endian 16-bit entry idx of the array at off.
RECURSIVE AnchorErrSum(_, _, _, _, _)
AnchorErrSum(d, off, k, truth, S) ==
  IF S = {} THEN 0
  ELSE LET idx == CHOOSE i \in S : TRUE
       IN  Abs((d[off + 2 * idx + 1] + 256 * d[off + 2 * idx + 2]) * k - truth[idx])
             + AnchorErrSum(d, off, k, truth, S \ {idx})

\* C19: the error of a 16-bit candidate (offset, scale) is the sum over the
\* anchors of |raw[idx] * scale - known[idx]| over the number of anchors, raw
\* unsigned little-endian; a buffer that differs only in entries that are no
\* anchors gives the same error to that candidate. (With no anchor at all the
\* quotient is not defined; the sum is then 0.)
C19_ErrorOverAnchorsOnly ==
  solver.pc = "u16" =>
    \A c \in 1..Len(solver.out) :
      LET cand == solver.out[c]
          anchors == DOMAIN solver.truth
          other == Scrubbed(data, solver.n, solver.truth, cand.offset)
          pred2 == [j \in 1..solver.n |-> unpack_u16(other, solver.n, cand.offset)[j] * cand.scale]
      IN  /\ anchors # {} => cand.mae.den = Cardinality(anchors)
          /\ cand.mae.num = AnchorErrSum(data, cand.offset, cand.scale, solver.truth, anchors)
          /\ mean_abs_error(pred2, solver.truth) = cand.mae

\* A candidate was scored on an array with an entry that is no anchor and is
\* far from 0, and its error is not 0.
C19_Witness ==
  /\ solver.pc = "u16"
  /\ \E c \in 1..Len(solver.out) :
       LET cand == solver.out[c]
       IN  /\ \E j \in 0..(solver.n - 1) :
                j \notin DOMAIN solver.truth /\ U16LE(data, cand.offset + 2 * j) >= 1024
           /\ cand.mae.num > 0
           /\ cand.scale = 2

-----------------------------------------------------------------------------
(* A further claim about the slot scanner, under SpecSlot *)

\* The characters of the L declared bytes of the slot at offset o.
Declared(d, o) == [k \in 1..d[o + 1] |-> Cp437(d[o + 1 + k])]

\* C20 as stated: the text of every accepted record is its L declared bytes
\* with trailing padding only removed: nothing is removed from the front or
\* the middle, and its length is L less the trailing padding.
C20_TrailingPaddingOnly ==
  \A t \in 1..Len(Runs) : \A j \in 1..Len(Runs[t]) :
    LET raw == Declared(data, Runs[t][j][1])
        s == Runs[t][j][2]
    IN  /\ Len(s) <= Len(raw)
        /\ s = SubSeq(raw, 1, Len(s))
        /\ \A k \in (Len(s) + 1)..Len(raw) : IsSpace(raw[k])
        /\ ~IsSpace(s[Len(s)])

\* C20 as amended: the text is the L declared bytes with the whitespace at the
\* front and at the end removed: nothing is removed from the middle, and its
\* length is L less the leading and the trailing whitespace.
C20_LeadingAndTrailing ==
  \A t \in 1..Len(Runs) : \A j \in 1..Len(Runs[t]) :
    LET raw == Declared(data, Runs[t][j][1])
        s == Runs[t][j][2]
    IN  \E a \in 0..(Len(raw) - Len(s)) :
          /\ s = SubSeq(raw, a + 1, a + Len(s))
          /\ \A k \in 1..a : IsSpace(raw[k])
          /\ \A k \in (a + Len(s) + 1)..Len(raw) : IsSpace(raw[k])
          /\ ~IsSpace(s[1]) /\ ~IsSpace(s[Len(s)])

\* A returned table holds a record whose declared bytes start and end with
\* whitespace, and its text is two characters shorter than declared.
C20_Witness ==
  /\ scan.pc = "done"
  /\ \E t \in 1..Len(scan.tables) : \E j \in 1..Len(scan.tables[t]) :
       LET raw == Declared(data, scan.tables[t][j][1])
       IN  /\ IsSpace(raw[1]) /\ IsSpace(raw[Len(raw)])
           /\ Len(scan.tables[t][j][2]) = Len(raw) - 2


-----------------------------------------------------------------------------
(* Resynchronisation of the slot scanner, under SpecSlot *)

\* The number of consecutive valid slots at stride 16 that begin at offset p.
ValidRunLen(d, p) ==
  CHOOSE n \in 0..(Len(d) \div 16) :
    /\ \A j \in 0..(n - 1) : read_slot16(d, p + 16 * j) # None
    /\ read_slot16(d, p + 16 * n) = None

\* The offsets at which at least 8 consecutive valid slots begin.
TableStarts(d) == {p \in 0..(Len(d) - 1) : ValidRunLen(d, p) >= 8}

\* C21: a discarded run of fewer than 8 slots that started at cursor i makes
\* the scan resume at i + 1; and the first table returned starts at the
\* smallest offset at which at least 8 consecutive valid slots begin, and holds
\* all the consecutive valid slots from there (no table when there is no such
\* offset).
C21_Resynchronise ==
  /\ [][(scan.pc = "close" /\ Len(scan.slots) < 8) => scan'.i = scan.i + 1]_vars
  /\ [](scan.pc = "done" =>
          IF TableStarts(data) = {} THEN scan.tables = <<>>
          ELSE LET p == CHOOSE q \in TableStarts(data) :
                               \A r \in TableStarts(data) : q <= r
               IN  /\ scan.tables # <<>>
                   /\ scan.tables[1][1][1] = p
                   /\ Len(scan.tables[1]) = ValidRunLen(data, p)
                   /\ \A j \in 1..Len(scan.tables[1]) :
                        scan.tables[1][j][1] = p + 16 * (j - 1))

\* The scan is over and its first table starts at an offset that is not a
\* multiple of 16, after shorter runs were discarded on the way.
C21_Witness ==
  /\ scan.pc = "done"
  /\ scan.tables # <<>>
  /\ scan.tables[1][1][1] % 16 # 0
  /\ Len(scan.tables[1]) >= 8


-----------------------------------------------------------------------------
(* The cursor of the Pascal scanner, under SpecPascal *)

\* The string at cursor i is consumed: its length byte is in range, it fits in
\* the buffer and all its text bytes are printable-name bytes.
Consumed(d, st) ==
  LET L == d[st.i + 1]
  IN  /\ st.min_len <= L /\ L <= st.max_len
      /\ st.i + 1 + L <= Len(d)
      /\ \A k \in (st.i + 2)..(st.i + 1 + L) :
           d[k] \in (65..90) \cup (97..122) \cup {32, 39, 45, 46}

\* C22 as stated: the cursor jumps past the 1 + L bytes only in a step that
\* emits a token; every step that emits no token (text with no alphabetic
\* character included) advances the cursor by exactly 1.
C22_JumpOnlyOnToken ==
  [][pscan'.pc = "scan" =>
       pscan'.i = pscan.i + (IF Len(pscan'.out) > Len(pscan.out)
                             THEN 1 + data[pscan.i + 1] ELSE 1)]_vars

\* C22 as amended: the cursor jumps past the 1 + L bytes in exactly the steps
\* whose string is consumed (length byte in range, string fits, all text bytes
\* printable-name bytes), whether or not the text has a letter and a token is
\* emitted; in every other step it advances by exactly 1 and emits nothing.
C22_JumpOnPrintable ==
  [][pscan'.pc = "scan" =>
       /\ pscan'.i = pscan.i + (IF Consumed(data, pscan)
                                THEN 1 + data[pscan.i + 1] ELSE 1)
       /\ Len(pscan'.out) > Len(pscan.out) => Consumed(data, pscan)]_vars

\* The scanner jumped past the string "..." at offset 0 without emitting a
\* token.
C22_Witness ==
  /\ Len(data) >= 4
  /\ SubSeq(data, 1, 4) = <<3, 46, 46, 46>>
  /\ pscan.i = 4
  /\ pscan.out = <<>>


-----------------------------------------------------------------------------
(* The segmenters against the boundary rule, under SpecTok *)

\* The boundary rule, at character st.k (from 0) of the run: a new token starts
\* at a lower-to-upper transition unless the token so far is exactly "Mac" or
\* "Mc".
RuleChar(s, st) ==
  LET ch == s[st.k + 1]
      nx == [st EXCEPT !.k = st.k + 1]
  IN  IF st.k > 0 /\ IsUpper(ch) /\ IsLower(s[st.k]) /\ st.cur \notin {Mc, Mac}
      THEN [nx EXCEPT !.tokens = Append(st.tokens, st.cur), !.cur = <<ch>>]
      ELSE [nx EXCEPT !.cur = Append(st.cur, ch)]

RECURSIVE RuleChars(_, _, _)
RuleChars(s, st, n) ==
  IF n = 0 \/ ~(st.k < Len(s)) THEN st
  ELSE IF n = 1 THEN RuleChar(s, st)
  ELSE RuleChars(s, RuleChars(s, st, n \div 2), n - (n \div 2))

\* The merge pass of the rule: a token that is exactly "Mc" or "Mac" is joined
\* to the token after it when that token starts with an uppercase letter.
RuleMergeStep(ts, st) ==
  IF /\ ts[st.i + 1] \in {Mc, Mac}
     /\ st.i + 1 < Len(ts)
     /\ ts[st.i + 2] # <<>> /\ IsUpper(ts[st.i + 2][1])
  THEN [i |-> st.i + 2, merged |-> Append(st.merged, ts[st.i + 1] \o ts[st.i + 2])]
  ELSE [i |-> st.i + 1, merged |-> Append(st.merged, ts[st.i + 1])]

RECURSIVE RuleMergeRun(_, _, _)
RuleMergeRun(ts, st, n) ==
  IF n = 0 \/ ~(st.i < Len(ts)) THEN st
  ELSE IF n = 1 THEN RuleMergeStep(ts, st)
  ELSE RuleMergeRun(ts, RuleMergeRun(ts, st, n \div 2), n - (n \div 2))

\* The reference algorithm on a run of letters.
RuleTokens(s) ==
  IF s = <<>> THEN <<>>
  ELSE LET st == RuleChars(s, [k |-> 0, tokens |-> <<>>, cur |-> <<>>], Len(s))
           ts == Append(st.tokens, st.cur)
       IN  RuleMergeRun(ts, [i |-> 0, merged |-> <<>>], Len(ts)).merged

LetterRun(s) == \A k \in 1..Len(s) : IsAlpha(s[k])

\* C23: on every run of letters, each segmenter returns what the reference
\* algorithm returns (new token at each lower-to-upper transition unless the
\* token so far is exactly "Mac" or "Mc", then the Mc/Mac merge pass), runs
\* with consecutive Mc/Mac prefixes included.
C23_SegmentersFollowRule ==
  LetterRun(text) =>
    /\ seg.mixed # None => seg.mixed[1] = RuleTokens(text)
    /\ seg.all # None => seg.all[1] = RuleTokens(text)
    /\ seg.names # None => seg.names[1] = RuleTokens(text)



-----------------------------------------------------------------------------
(* The merge pass, under SpecTok *)

\* The tokens of tokenize_mixed before its merge loops.
RawMixed(s) == flush(tok_chars(s, [k |-> 0, tokens |-> <<>>, cur |-> <<>>], Len(s))).tokens

\* The parts of split_concatenated_names (extract_all_names.py) before its
\* merge loop.
RawParts(s) ==
  IF s = <<>> THEN <<>>
  ELSE LET st == split_chars(s, [k |-> 1, parts |-> <<>>, cur |-> <<s[1]>>], 0, Len(s))
       IN  Append(st.parts, st.cur)

StartsUpper(t) == t # <<>> /\ IsUpper(t[1])

\* What C24 requires of a merge pass that turned the tokens raw into out: a
\* token of out that is not a token of raw is "Mc" or "Mac" joined to a token
\* that starts with an uppercase letter; and a "Mc" or "Mac" of raw that is not
\* itself taken by a prefix in front of it, and is last or followed by a token
\* that does not start with an uppercase letter, is a token of out.
MergeRuleOk(raw, out) ==
  /\ \A j \in 1..Len(out) :
       \/ \E i \in 1..Len(raw) : raw[i] = out[j]
       \/ \E pfx \in {Mc, Mac} :
            /\ Len(out[j]) > Len(pfx)
            /\ SubSeq(out[j], 1, Len(pfx)) = pfx
            /\ IsUpper(out[j][Len(pfx) + 1])
  /\ \A i \in 1..Len(raw) :
       ( /\ raw[i] \in {Mc, Mac}
         /\ (i = 1 \/ raw[i - 1] \notin {Mc, Mac})
         /\ (i = Len(raw) \/ ~StartsUpper(raw[i + 1])) )
       => \E j \in 1..Len(out) : out[j] = raw[i]
  /\ Flatten(out) = Flatten(raw)

\* C24: in the merge pass, "Mc" or "Mac" is joined to the token after it only
\* if that token exists and starts with an uppercase letter; followed by a
\* token that does not, or last in the sequence, it stays a token of its own
\* and is never dropped.
C24_MergeOnlyBeforeUpper ==
  /\ seg.mixed # None => MergeRuleOk(RawMixed(text), seg.mixed[1])
  /\ seg.all # None => MergeRuleOk(RawParts(text), seg.all[1])


-----------------------------------------------------------------------------
(* Termination of the scans *)

\* Any one of the three scans, started on any of its inputs (of the Pascal
\* scanner's, the buffers shorter than the 1500 bytes of the Aberdeen scenario).
InitScans == InitSlot \/ (InitPascal /\ Len(data) < 1500) \/ InitSolve

NextScans == NextSlot \/ NextPascal \/ NextSolve

\* A loop is at one of its steps: some action of NextScans is enabled.
Running ==
  \/ scan.pc \in {"while", "read", "close"}
  \/ pscan.pc = "scan"
  \/ solver.pc \in {"u16", "u32", "top"}

Finished == scan.pc = "done" \/ pscan.pc = "done" \/ solver.pc = "done"

\* Weak fairness of NextScans, with ENABLED <<NextScans>>_vars written out as
\* Running: the interpreter runs the next step of a loop that has one.
ScansFair == []<>(~Running) \/ []<><<NextScans>>_vars

SpecScans == InitScans /\ [][NextScans]_vars /\ ScansFair

\* C25: every scan terminates: each round of the outer loops of
\* find_slot16_tables and extract_pascal_strings strictly increases the cursor
\* (by 1, by 1 + L, or to the end of an accepted run), the run-extension loop
\* of the slot scanner advances by 16 and never past the buffer end, the
\* solver loops move to the next offset in every round, and every scan
\* reaches its return.
C25_ScansTerminate ==
  /\ [][ /\ scan.pc = "close" =>
              /\ scan'.i > scan.i
              /\ scan'.i = scan.i + 1 \/ (Len(scan.slots) >= 8 /\ scan'.i = scan.off)
         /\ (scan.pc = "read" /\ scan'.pc = "read") =>
              (scan'.off = scan.off + 16 /\ scan'.off <= Len(data))
         /\ (pscan.pc = "scan" /\ pscan'.pc = "scan") =>
              /\ pscan'.i > pscan.i
              /\ pscan'.i \in {pscan.i + 1, pscan.i + 1 + data[pscan.i + 1]}
         /\ (solver.pc \in {"u16", "u32"} /\ solver'.pc = solver.pc) =>
              solver'.off = solver.off + 1 ]_vars
  /\ <>Finished

\* A scan of the slot scanner returned after it had discarded a run and
\* accepted a later one.
C25_Witness ==
  /\ scan.pc = "done"
  /\ Len(scan.tables) >= 1
  /\ scan.tables[1][1][1] > 0


-----------------------------------------------------------------------------
(* The solver with few anchors or a short buffer, under SpecScans *)

\* The candidates found so far and those already returned.
AllCandidates ==
  IF solver.pc = "idle" THEN <<>>
  ELSE solver.out \o (IF solver.candA = None THEN <<>> ELSE solver.candA[1])
                  \o (IF solver.candA32 = None THEN <<>> ELSE solver.candA32[1])

\* C26: whatever the number of anchors, none included, the solver runs to
\* completion and returns its candidates, each with a defined error, which is 0
\* when there is no anchor; and on a buffer too short for one N-element array
\* it returns the empty list.
C26_FewAnchorsNoError ==
  /\ [](\A k \in 1..Len(AllCandidates) :
          /\ AllCandidates[k].mae.den >= 1
          /\ DOMAIN solver.truth = {} => AllCandidates[k].mae.num = 0)
  /\ []((solver.pc # "idle" /\ solver.candA # None /\ Len(data) < 2 * solver.n)
          => solver.candA[1] = <<>>)
  /\ []((solver.pc # "idle" /\ solver.candA32 # None /\ Len(data) < 4 * solver.n)
          => solver.candA32[1] = <<>>)
  /\ (solver.pc = "u16") ~> (solver.pc = "done" /\ solver.topA # None)

\* The solver returned candidates for an empty anchor map, and found no 32-bit
\* array in a buffer too short for one.
C26_Witness ==
  /\ solver.pc = "done"
  /\ DOMAIN solver.truth = {}
  /\ solver.candA[1] # <<>>
  /\ Len(data) < 4 * solver.n
  /\ solver.candA32[1] = <<>>


-----------------------------------------------------------------------------
(* Order and disjointness of the tables, under SpecSlot *)

\* The slot offsets of table t.
OffsetsOf(t) == {scan.tables[t][j][1] : j \in 1..Len(scan.tables[t])}

\* C27: the tables are in ascending offset order and cover disjoint byte
\* ranges: each table starts at or after the last record of the table before
\* it plus 16, so no byte lies in the slots of two tables and no slot is
\* reported twice.
C27_TablesOrderedDisjoint ==
  /\ \A t \in 1..(Len(scan.tables) - 1) :
       LET prev == scan.tables[t]
       IN  scan.tables[t + 1][1][1] >= prev[Len(prev)][1] + 16
  /\ \A t, u \in 1..Len(scan.tables) :
       t # u =>
         \A a \in OffsetsOf(t), b \in OffsetsOf(u) : a + 16 <= b \/ b + 16 <= a
  /\ \A t \in 1..Len(scan.tables) :
       Cardinality(OffsetsOf(t)) = Len(scan.tables[t])

\* The scan returned two tables.
C27_Witness ==
  /\ scan.pc = "done"
  /\ Len(scan.tables) >= 2


-----------------------------------------------------------------------------
(* The Pascal scanner against the offsets that qualify, under SpecPascal *)

\* Offset i qualifies on its own: a length byte in [3, 24], a string that
\* fits, text bytes all in the printable-name set, at least one letter.
Qualifies(d, i) ==
  /\ i < Len(d) - 2
  /\ 3 <= d[i + 1] /\ d[i + 1] <= 24
  /\ i + 1 + d[i + 1] <= Len(d)
  /\ \A k \in (i + 2)..(i + 1 + d[i + 1]) :
       d[k] \in (65..90) \cup (97..122) \cup {32, 39, 45, 46}
  /\ \E k \in (i + 2)..(i + 1 + d[i + 1]) : d[k] \in (65..90) \cup (97..122)

\* C28: with the default range [3, 24], the offsets of the tokens returned by
\* extract_pascal_strings are, in ascending order, exactly the offsets
\* i < len(data) - 2 that qualify on their own: the jump past a consumed
\* string hides no valid string.
C28_AllQualifyingOffsets ==
  (pscan.pc = "done" /\ DefaultRange) =>
    /\ {pscan.out[k][1] : k \in 1..Len(pscan.out)}
         = {i \in 0..(Len(data) - 1) : Qualifies(data, i)}
    /\ \A k \in 1..(Len(pscan.out) - 1) : pscan.out[k][1] < pscan.out[k + 1][1]

\* The scan with the default range returned two tokens, the second found after
\* the jump past the text of the first.
C28_Witness ==
  /\ pscan.pc = "done" /\ DefaultRange
  /\ Len(pscan.out) >= 2
  /\ pscan.out[2][1] = pscan.out[1][1] + 1 + data[pscan.out[1][1] + 1]


-----------------------------------------------------------------------------
(* The characters of the tokens, under SpecTok *)

\* A character tokenize_mixed keeps: a letter, an apostrophe or a hyphen.
NameChar(c) == IsAlpha(c) \/ c \in {39, 45}

\* C29: the tokens of tokenize_mixed, concatenated in order, are the input
\* with every character that is not a letter, apostrophe or hyphen removed;
\* the tokens of split_concatenated_names, concatenated, are the input itself.
C29_CharactersPreserved ==
  /\ seg.mixed # None => Flatten(seg.mixed[1]) = SelectSeq(text, NameChar)
  /\ seg.all # None => Flatten(seg.all[1]) = text
  /\ seg.names # None => Flatten(seg.names[1]) = text

\* A text with a character that is removed was segmented by all three, and
\* the merge loops of tokenize_mixed joined a prefix to the token after it.
C29_Witness ==
  /\ seg.mixed # None /\ seg.all # None /\ seg.names # None
  /\ \E k \in 1..Len(text) : ~NameChar(text[k])
  /\ seg.mixed[1] # <<>>
  /\ seg.mixed[1] # RawMixed(text)
  /\ seg.all[1] # <<>>


-----------------------------------------------------------------------------
(* infer_pairs as a partition of its input, under SpecPair *)

\* The position in the input stream of the token at offset o.
IndexAt(o) == CHOOSE k \in 1..Len(pair.tokens) : pair.tokens[k].offset = o

\* The positions taken as the first of a pair, and as a single.
PairFirsts == {IndexAt(pair.pairs[j][4]) : j \in 1..Len(pair.pairs)}
SingleAt == {IndexAt(pair.singles[j].offset) : j \in 1..Len(pair.singles)}

\* C30: infer_pairs partitions its input: each token read so far (all of them
\* at the return) is the first of a pair, the last of a pair or a single, and
\* only one of these, so 2 * |pairs| + |singles| = |tokens|; pairs and singles
\* are in input order; the two members of a pair are adjacent in the input.
C30_PairsPartitionInput ==
  pair.pc # "idle" =>
    /\ 2 * Len(pair.pairs) + Len(pair.singles) = pair.i
    /\ pair.pc # "infer" => pair.i = Len(pair.tokens)
    /\ \A j \in 1..Len(pair.pairs) :
         \E k \in 1..(Len(pair.tokens) - 1) :
           /\ pair.tokens[k].offset = pair.pairs[j][4]
           /\ pair.tokens[k].source = pair.pairs[j][3]
           /\ pair.tokens[k + 1].value = pair.pairs[j][2]
    /\ \A j \in 1..Len(pair.singles) :
         \E k \in 1..Len(pair.tokens) : pair.tokens[k] = pair.singles[j]
    /\ Cardinality(PairFirsts) = Len(pair.pairs)
    /\ Cardinality(SingleAt) = Len(pair.singles)
    /\ PairFirsts \cap {k + 1 : k \in PairFirsts} = {}
    /\ SingleAt \cap (PairFirsts \cup {k + 1 : k \in PairFirsts}) = {}
    /\ PairFirsts \cup {k + 1 : k \in PairFirsts} \cup SingleAt = 1..pair.i
    /\ \A j \in 1..(Len(pair.pairs) - 1) : pair.pairs[j][4] < pair.pairs[j + 1][4]
    /\ \A j \in 1..(Len(pair.singles) - 1) :
         pair.singles[j].offset < pair.singles[j + 1].offset

\* infer_pairs returned at least one pair and at least one single, a single
\* coming after the first pair.
C30_Witness ==
  /\ pair.pc = "dedup_pairs"
  /\ Len(pair.pairs) >= 1
  /\ Len(pair.singles) >= 1
  /\ \E j \in 1..Len(pair.singles) :
       pair.pairs[1][4] < pair.singles[j].offset

=========================================================================
